---- MODULE Spec2Model ----
(***************************************************************************)
(* Model of the bolt-to-gitlab extension core: the background service      *)
(* (BackgroundService), the ZIP-to-repository pipeline (ZipHandler), the   *)
(* archive extractor (ZipProcessor), the connection manager               *)
(* (ConnectionManager) and the content script's manager (ContentManager).  *)
(*                                                                         *)
(* JavaScript runs one task at a time: an action of this model is the code *)
(* that runs between two suspension points (await of a network response,   *)
(* of a storage read, of a timer).  `await this.updateStatus(...)` awaits  *)
(* an already-settled promise and yields to the microtask queue only; no   *)
(* event handler can run in between, so it is not a suspension point here. *)
(***************************************************************************)
EXTENDS Integers, Sequences, FiniteSets, TLC

\* ------------------------------------------------------------------ bounds
\* number of handleZipData invocations one behaviour may start
MaxSyncs == 2
\* number of messages one ConnectionManager may be asked to send
MaxSends == 3
\* number of times the connection manager's owner calls connect()
MaxConnects == 2
\* number of port disconnects the environment causes
MaxDrops == 2
\* number of times the connection manager's owner calls disconnect()
MaxDisconnects == 1
\* number of connect() calls of an owner that never closes a port itself
MaxPorts == 5

\* writes to chrome.storage.sync in one behaviour
MaxChanges == 2

\* entries of a generated archive
MaxEntries == 3

\* port disconnects, focus events and reinitialize calls the page of one
\* ContentManager sees
MaxPageEvents == 4

None == "none"

\* `undefined` where a text is expected (a text has at least one line)
Undefined == <<>>

\* ------------------------------------------------------- paths and contents
\* A path is the sequence of its '/'-separated segments: "dist/app.js" is
\* <<"dist", "app.js">> and the directory marker "dist/" is <<"dist", "">>.
\* A text is the sequence of its '\n'-separated lines; "" is <<"">>.
EndsWithSlash(path) == path[Len(path)] = ""

IsBlank(line) == line \in {"", " "}

\* String.prototype.trim() yields the empty string
TrimIsEmpty(text) == \A k \in 1..Len(text) : IsBlank(text[k])

\* JavaScript truthiness of a string | undefined
Truthy(text) == text # Undefined /\ text # <<"">>

\* Map<string, string> keeps insertion order: a sequence of entries with
\* distinct paths.
MapHas(m, path) == \E k \in 1..Len(m) : m[k].path = path

MapGet(m, path) ==
  IF MapHas(m, path)
    THEN (CHOOSE e \in {m[k] : k \in 1..Len(m)} : e.path = path).content
    ELSE Undefined

MapSet(m, path, content) ==
  IF MapHas(m, path)
    THEN [k \in 1..Len(m) |->
            IF m[k].path = path THEN [path |-> path, content |-> content] ELSE m[k]]
    ELSE Append(m, [path |-> path, content |-> content])

MapPaths(m) == {m[k].path : k \in 1..Len(m)}

\* --------------------------------------------------------- ignore patterns
\* One line of a .gitignore as the `ignore` package compiles it: blank lines
\* and comments give no rule; a trailing '/' restricts the rule to
\* directories; a rule without a '/' inside matches a segment at any depth.
Rule(glob, dirOnly) == [glob |-> glob, dirOnly |-> dirOnly]

LineRule(line) ==
  CASE line = "b.txt"            -> {Rule("b.txt", FALSE)}
    [] line = "a.txt"            -> {Rule("a.txt", FALSE)}
    [] line = "node_modules/"    -> {Rule("node_modules", TRUE)}
    [] line = "dist/"            -> {Rule("dist", TRUE)}
    [] line = "build/"           -> {Rule("build", TRUE)}
    [] line = ".DS_Store"        -> {Rule(".DS_Store", FALSE)}
    [] line = "coverage/"        -> {Rule("coverage", TRUE)}
    [] line = ".env"             -> {Rule(".env", FALSE)}
    [] line = ".env.local"       -> {Rule(".env.local", FALSE)}
    [] line = ".env.*.local"     -> {Rule(".env.*.local", FALSE)}
    [] line = "*.log"            -> {Rule("*.log", FALSE)}
    [] line = "npm-debug.log*"   -> {Rule("npm-debug.log*", FALSE)}
    [] line = "yarn-debug.log*"  -> {Rule("yarn-debug.log*", FALSE)}
    [] line = "yarn-error.log*"  -> {Rule("yarn-error.log*", FALSE)}
    [] line = ".idea/"           -> {Rule(".idea", TRUE)}
    [] line = ".vscode/"         -> {Rule(".vscode", TRUE)}
    [] line = "*.suo"            -> {Rule("*.suo", FALSE)}
    [] line = "*.ntvs*"          -> {Rule("*.ntvs*", FALSE)}
    [] line = "*.njsproj"        -> {Rule("*.njsproj", FALSE)}
    [] line = "*.sln"            -> {Rule("*.sln", FALSE)}
    [] line = "*.sw?"            -> {Rule("*.sw?", FALSE)}
    [] line = ".next/"           -> {Rule(".next", TRUE)}
    [] line = "out/"             -> {Rule("out", TRUE)}
    [] line = ".nuxt/"           -> {Rule(".nuxt", TRUE)}
    [] line = ".cache/"          -> {Rule(".cache", TRUE)}
    [] line = ".temp/"           -> {Rule(".temp", TRUE)}
    [] line = "tmp/"             -> {Rule("tmp", TRUE)}
    [] OTHER                     -> {}

\* glob against one path segment, over the segments the model uses
GlobMatch(glob, seg) ==
  \/ glob = seg
  \/ glob = "*.log" /\ seg \in {"debug.log", "npm-debug.log"}
  \/ glob = "npm-debug.log*" /\ seg \in {"npm-debug.log"}
  \/ glob = ".env.*.local" /\ seg \in {".env.test.local"}

\* ig.ignores(path): the path or one of its parent directories matches a rule
Ignores(rules, path) ==
  \E k \in 1..Len(path) : \E r \in rules :
    /\ GlobMatch(r.glob, path[k])
    /\ r.dirOnly => k < Len(path)

DefaultIgnoreLines ==
  << "node_modules/", "dist/", "build/", ".DS_Store", "coverage/", ".env",
     ".env.local", ".env.*.local", "*.log", "npm-debug.log*", "yarn-debug.log*",
     "yarn-error.log*", ".idea/", ".vscode/", "*.suo", "*.ntvs*", "*.njsproj",
     "*.sln", "*.sw?", ".next/", "out/", ".nuxt/", ".cache/", ".temp/", "tmp/" >>

RulesOf(lines) == UNION {LineRule(lines[k]) : k \in 1..Len(lines)}

\* files.get('.gitignore') || files.get('project/.gitignore')
GitignoreContent(files) ==
  IF Truthy(MapGet(files, <<".gitignore">>))
    THEN MapGet(files, <<".gitignore">>)
    ELSE MapGet(files, <<"project", ".gitignore">>)

\* faulty variant: the archive's own .gitignore is never consulted
ActiveRulesDefaultsOnly(files) == RulesOf(DefaultIgnoreLines)

ActiveRules(files) ==
  IF Truthy(GitignoreContent(files))
    THEN RulesOf(GitignoreContent(files))
    ELSE RulesOf(DefaultIgnoreLines)

\* path.startsWith('project/') ? path.slice(8) : path
NormalizedPath(path) ==
  IF Len(path) >= 2 /\ path[1] = "project" THEN Tail(path) ELSE path

SkipsEntry(e) == EndsWithSlash(e.path) \/ TrimIsEmpty(e.content)

RECURSIVE FilterFrom(_, _, _, _)
FilterFrom(files, rules, k, acc) ==
  IF k > Len(files) THEN acc
  ELSE IF SkipsEntry(files[k]) THEN FilterFrom(files, rules, k + 1, acc)
  ELSE IF Ignores(rules, NormalizedPath(files[k].path))
         THEN FilterFrom(files, rules, k + 1, acc)
  ELSE FilterFrom(files, rules, k + 1,
                  MapSet(acc, NormalizedPath(files[k].path), files[k].content))

processFilesWithGitignore(files) == FilterFrom(files, ActiveRules(files), 1, <<>>)

\* ------------------------------------------------------------ the archives
\* A blob: its size in bytes, whether fflate can inflate it, and its entries
\* in archive order.  An entry's bytes are valid UTF-8 or not.
MAX_FILE_SIZE == 50 * 1024 * 1024

Entry(path, content) == [path |-> path, content |-> content, utf8 |-> TRUE]

\* an entry whose bytes are no UTF-8 text
Binary(path) == [path |-> path, content |-> <<"bytes">>, utf8 |-> FALSE]

Blob(size, wellFormed, entries) ==
  [size |-> size, wellFormed |-> wellFormed, entries |-> entries]

ArchiveScenario ==
  Blob(300, TRUE, << Entry(<<"a.txt">>, <<"A">>),
                     Entry(<<"b.txt">>, <<"B">>),
                     Entry(<<".gitignore">>, <<"b.txt">>) >>)

ArchiveOne == Blob(100, TRUE, << Entry(<<"a.txt">>, <<"A">>) >>)

ArchiveTwo ==
  Blob(200, TRUE, << Entry(<<"project", "a.txt">>, <<"A">>),
                     Entry(<<"src", "app.js">>, <<"S">>),
                     Entry(<<"dist", "">>, <<"">>),
                     Entry(<<"dist", "app.js">>, <<"D">>),
                     Entry(<<"node_modules", "x.js">>, <<"X">>) >>)

ArchiveEmpty == Blob(0, TRUE, <<>>)

ArchiveCorrupt == Blob(50, FALSE, <<>>)

ArchiveNoEntries == Blob(22, TRUE, <<>>)

ArchiveTooLarge == Blob(MAX_FILE_SIZE + 1, TRUE, << Entry(<<"a.txt">>, <<"A">>) >>)

ArchiveAtLimit == Blob(MAX_FILE_SIZE, TRUE, << Entry(<<"a.txt">>, <<"A">>) >>)

Archives ==
  { ArchiveScenario, ArchiveOne, ArchiveTwo, ArchiveEmpty, ArchiveCorrupt,
    ArchiveNoEntries, ArchiveTooLarge, ArchiveAtLimit }

\* TextDecoder.decode without {fatal: true}: invalid bytes become U+FFFD
Decode(e) == IF e.utf8 THEN e.content ELSE <<"?">>

RECURSIVE DecodeAll(_, _, _)
DecodeAll(entries, k, acc) ==
  IF k > Len(entries) THEN acc
  ELSE DecodeAll(entries, k + 1, MapSet(acc, entries[k].path, Decode(entries[k])))

\* faulty variant: an archive without entries yields an empty map
processZipBlobAllowingNone(blob) ==
  IF blob.size = 0
    THEN [ok |-> FALSE, msg |-> "Empty ZIP file provided", files |-> <<>>]
  ELSE IF ~blob.wellFormed
    THEN [ok |-> FALSE, msg |-> "Failed to extract ZIP contents", files |-> <<>>]
  ELSE [ok |-> TRUE, msg |-> "", files |-> DecodeAll(blob.entries, 1, <<>>)]

\* ZipProcessor.processZipBlob: [ok, files] or [ok = FALSE, msg]
processZipBlob(blob) ==
  IF blob.size = 0
    THEN [ok |-> FALSE, msg |-> "Empty ZIP file provided", files |-> <<>>]
  ELSE IF ~blob.wellFormed
    THEN [ok |-> FALSE, msg |-> "Failed to extract ZIP contents", files |-> <<>>]
  ELSE IF Len(blob.entries) = 0
    THEN [ok |-> FALSE, msg |-> "ZIP file contains no files", files |-> <<>>]
  ELSE [ok |-> TRUE, msg |-> "", files |-> DecodeAll(blob.entries, 1, <<>>)]

\* ------------------------------------------------------------ error values
\* A thrown value: its message, the `status` property GitLabService.request
\* sets on it (0 when absent) and whether it is a Response object.
Err(msg, status) == [msg |-> msg, status |-> status, isResponse |-> FALSE]

NoErr == Err("", 0)

\* GitLabService.request on a response that is not ok: an Error (never a
\* Response) whose message starts with "GitLab API Error (<status>)".
RequestError(status) == Err("GitLab API Error", status)

\* errorMessage.includes(marker) over the messages the pipeline can throw
Includes(msg, marker) ==
  \/ marker = "GitLab API Error" /\
       msg \in { "GitLab API Error",
                 "Failed to create branch: GitLab API Error",
                 "Failed to check branch existence: GitLab API Error" }
  \/ marker = "Repository not found" /\
       msg \in { "Repository not found or access denied" }
  \/ marker = "Insufficient permissions" /\
       msg \in { "Insufficient permissions to create branch" }

TimeoutMessage == "File upload timed out"

DefaultCommitMessage == "Commit from Bolt to GitLab"

\* handleZipData, catch (decodeError): the message of the error it rethrows
Reclassify(msg) ==
  IF Includes(msg, "GitLab API Error")
    THEN "GitLab Error: GitLab authentication or API error occurred"
  ELSE IF Includes(msg, "Project settings not found")
    THEN "Project settings not configured"
  ELSE IF Includes(msg, "Repository not found")
    THEN "Repository not found. Please verify your GitLab repository URL and permissions."
  ELSE IF Includes(msg, "Insufficient permissions")
    THEN "Insufficient permissions. Please check your GitLab token has the required access rights."
  ELSE "Failed to process ZIP data. Please try reloading the page."

\* --------------------------------------------------------------- statuses
\* An UploadStatusState: status, progress and message; a message is its fixed
\* text, the text it is prefixed with and the number it mentions (0 if none).
StatusN(status, progress, prefix, message, n) ==
  [ status |-> status, progress |-> progress, prefix |-> prefix,
    message |-> message, n |-> n ]

Status(status, progress, message) == StatusN(status, progress, "", message, 0)

\* the status the catch of processZipFile emits for a thrown error
FailedStatus(err) == StatusN("error", 0, "Failed to upload files: ", err.msg, 0)

\* --------------------------------------------------------------- endpoints
\* The UI contexts that may open a port to the background service: the name
\* they connect with and the tab they live in (none for a popup).
EndpointIds == {"content1", "content2", "popupA", "popupB", "devtools"}

EName(e) ==
  CASE e \in {"content1", "content2"} -> "bolt-content"
    [] e \in {"popupA", "popupB"}     -> "popup"
    [] OTHER                          -> "devtools"

\* port.sender?.tab?.id ?? -1
ETab(e) ==
  CASE e = "content1" -> 1
    [] e = "content2" -> 2
    [] OTHER          -> -1

TabIds == {-1, 1, 2}

Accepted(e) == EName(e) \in {"bolt-content", "popup"}

\* ---------------------------------------------------------------- requests
Req(method, what, path) == [method |-> method, what |-> what, path |-> path]

FileCreate(path) == Req("POST", "file", path)

\* HTTP statuses the remote answers with
Statuses == {200, 403, 404, 429, 500}

\* bodies of a 200 answer to GET /rate_limit, as createBlobs reads them:
\* enough requests left, fewer than 10 with the reset within 120 s, fewer
\* than 10 with the reset later
RateBodies == {"plenty", "low_soon", "low_far"}

\* bodies of the second GET /rate_limit: resources.core.remaining at least
\* 10, below 10, or no `resources` field at all
RecheckBodies == {"plenty", "low", "malformed"}

\* RateLimitHandler is imported from './RateLimitHandler', which is not among
\* the repository's files; it is modelled from the design description: a
\* bounded number of rate-limit waits in a row, then a fatal error.
RATE_MAX_RETRIES == 3

VARIABLES
  env,                  \* what this behaviour's environment may do (fixed)
  storage,              \* chrome.storage.sync and the StateManager's project id
  initialized,          \* BackgroundService.initialize() has run
  gitlabService,        \* this.gitlabService: None or the token it holds
  zipHandler,           \* this.zipHandler: None or the token of its service
  connHandlers,         \* chrome.runtime.onConnect listener is registered
  storageListener,      \* this.storageListener is registered
  reinit,               \* storage changes, and listener calls awaiting getSettings
  ports,                \* this.ports: tab id -> endpoint or None
  live,                 \* endpoints whose port to the background is open
  pendingCommitMessage, \* this.pendingCommitMessage
  handler,              \* the handleZipData invocations
  run,                  \* the processZipFile invocations, one per handler
  cm,                   \* one ConnectionManager and its environment
  content               \* one ContentManager and its environment

bgVars == << storage, initialized, gitlabService, zipHandler, connHandlers,
             storageListener, reinit, ports, live, pendingCommitMessage, handler, run >>

vars == << env, storage, initialized, gitlabService, zipHandler, connHandlers,
           storageListener, reinit, ports, live, pendingCommitMessage, handler, run, cm, content >>

SyncIds == 1..MaxSyncs

\* ----------------------------------------------------- handler and run records
IdleHandler ==
  [ state |-> "unused",     \* unused, project_id, racing, done
    tab |-> 0,              \* the tabId argument
    port |-> None,          \* the port looked up at entry
    timedOut |-> FALSE,     \* the withTimeout timer won the race
    overlapped |-> FALSE,   \* an earlier run had not settled at entry
    reply |-> Status("", 0, ""),   \* the response handleZipData posted
    heard |-> {},           \* the endpoints that response reached
    present |-> {} ]        \* the endpoints in this.ports at that moment

IdleRun ==
  [ pc |-> "none",          \* the suspension point the run is at
    blob |-> ArchiveEmpty,
    commitMessage |-> "",
    files |-> <<>>,         \* the extracted map
    owner |-> "", repo |-> "", branch |-> "",
    processed |-> <<>>,     \* the filtered map
    k |-> 0,                \* index of the entry the current loop is at
    completedFiles |-> 0,
    fileCount |-> 0,
    retryCount |-> 0,       \* RateLimitHandler's retry counter
    results |-> <<>>,       \* paths pushed to createBlobs' results
    outcome |-> "",         \* "" while running, then resolved / rejected
    error |-> NoErr,        \* what a rejected run threw
    idleTimer |-> FALSE,    \* the 5 s timer of the idle status is pending
    reqs |-> <<>>,          \* the requests issued, in order
    targets |-> <<>>,       \* the project and branch each of them names
    resps |-> <<>>,         \* the statuses they were answered with, in order
    emitted |-> <<>>,       \* the statuses passed to sendStatus, in order
    heard |-> <<>> ]        \* the endpoints each of them was posted to

InFlight(r) == r.pc \notin {"none", "done"}

\* the endpoints whose port is in this.ports
Observers == {ports[t] : t \in TabIds} \ {None}

\* Who received a message is history, not program state: it is recorded in
\* the behaviours whose environment asks for it (env.observe).
Recorded(endpoints) == IF env.observe THEN endpoints ELSE {}

\* updateStatus -> sendStatus -> broadcastStatus: posted to every port of
\* this.ports
Emit(r, st) ==
  [r EXCEPT !.emitted = Append(@, st), !.heard = Append(@, Recorded(Observers))]

\* the remote's answer to the request in flight arrives
Answer(r, status) == [r EXCEPT !.resps = Append(@, status)]

\* the project and the branch in the URL and body of a request, built from
\* the parameters repoOwner, repoName and targetBranch of the function that
\* issues it; /rate_limit names no project, the project lookup and the
\* branch listing no branch, and the lookup of the branch to create from
\* names the literal 'main'
Targeted(owner, repo, branch, req) ==
  [ owner |-> IF req.what = "rate_limit" THEN "" ELSE owner,
    repo |-> IF req.what = "rate_limit" THEN "" ELSE repo,
    branch |-> IF req.what \in {"branch", "create_branch", "file"} THEN branch
               ELSE IF req.what = "main" THEN "main"
               ELSE "" ]

\* targetBranch = branch || 'main'
TargetBranch(st) == IF st.branch = "" THEN "main" ELSE st.branch

\* faulty variant: each request takes its target from the settings as they are now
IssueRereading(r, req, pc) ==
  [r EXCEPT !.reqs = Append(@, req),
            !.targets = Append(@, Targeted(storage.repoOwner, storage.repoName,
                                           TargetBranch(storage), req)),
            !.pc = pc]

\* gitlabService.request(...): the request leaves and the run suspends at pc
Issue(r, req, pc) ==
  [r EXCEPT !.reqs = Append(@, req),
            !.targets = Append(@, Targeted(r.owner, r.repo, r.branch, req)),
            !.pc = pc]

\* processZipFile, catch (error): emit the error status and rethrow
Caught(r, err) ==
  [ Emit(r, FailedStatus(err)) EXCEPT
      !.pc = "done", !.outcome = "rejected", !.error = err ]

\* a throw outside the try block of processZipFile
Rejected(r, err) == [r EXCEPT !.pc = "done", !.outcome = "rejected", !.error = err]

\* ------------------------------------------------- ZipHandler.processZipFile
\* Each operator below is the code that runs from one suspension point of
\* processZipFile to the next, as a function of the run record.

\* the end of uploadToGitLab and of processZipFile's try block
\* faulty variant: the message counts the extracted entries, not the uploaded ones
FinishCountingExtracted(r) ==
  LET r1 == Emit(r, Status("uploading", 90, "Files uploaded successfully"))
      r2 == Emit(r1, StatusN("success", 100, "", "Successfully uploaded files to GitLab",
                             Len(r.files)))
  IN  [r2 EXCEPT !.pc = "done", !.outcome = "resolved", !.idleTimer = TRUE]

Finish(r) ==
  LET r1 == Emit(r, Status("uploading", 90, "Files uploaded successfully"))
      r2 == Emit(r1, StatusN("success", 100, "", "Successfully uploaded files to GitLab",
                             Len(r.processed)))
  IN  [r2 EXCEPT !.pc = "done", !.outcome = "resolved", !.idleTimer = TRUE]

\* uploadToGitLab's loop "Create commits for each file", at entry k
CommitFrom(r, k) ==
  IF k <= Len(r.processed)
    THEN Issue([r EXCEPT !.k = k], FileCreate(r.processed[k].path), "commit_post")
    ELSE Finish(r)

\* createBlobs has returned
AfterBlobs(r) == CommitFrom(Emit(r, Status("uploading", 70, "Creating tree...")), 1)

\* Queue is imported from '../lib/Queue', which is not among the repository's
\* files; it is modelled from the design description: add(task) returns a
\* promise that settles with the task, and with concurrency 1 and no task
\* running the task starts at once.  The task's first step is
\* rateLimitHandler.beforeRequest(), which returns after a possible delay.
QueueAdd(r) == [r EXCEPT !.pc = "before_request"]

\* createBlobs' loop at entry k: await queue.add(task)
BlobFrom(r, k) ==
  IF k <= Len(r.processed)
    THEN QueueAdd([r EXCEPT !.k = k])
    ELSE AfterBlobs(r)

\* processFilesWithGitignore, then uploadToGitLab up to its first request
Filtered(r) ==
  LET r1 == [r EXCEPT !.processed = processFilesWithGitignore(r.files)]
      r2 == Emit(r1, Status("uploading", 20, "Getting repository information..."))
  IN  Issue(r2, Req("GET", "branch", <<>>), "upload_branch")

\* faulty variant: the size guard also rejects an archive of exactly the limit
StartRunInclusive(blob, commitMessage) ==
  LET r0 == [IdleRun EXCEPT !.blob = blob, !.commitMessage = commitMessage]
      r1 == Emit(r0, Status("uploading", 0, "Processing ZIP file..."))
  IN  IF blob.size >= MAX_FILE_SIZE
        THEN Rejected(Emit(r0, Status("error", 0, "File too large")),
                      Err("File too large", 0))
      ELSE IF blob.size = 0
        THEN Caught(r1, Err(processZipBlob(blob).msg, 0))
      ELSE [r1 EXCEPT !.pc = "extract"]

\* processZipFile from its call to the await of ZipProcessor.processZipBlob
StartRun(blob, commitMessage) ==
  LET r0 == [IdleRun EXCEPT !.blob = blob, !.commitMessage = commitMessage]
      r1 == Emit(r0, Status("uploading", 0, "Processing ZIP file..."))
  IN  IF blob.size > MAX_FILE_SIZE
        THEN Rejected(Emit(r0, Status("error", 0, "File too large")),
                      Err("File too large", 0))
      ELSE IF blob.size = 0
        THEN Caught(r1, Err(processZipBlob(blob).msg, 0))
      ELSE [r1 EXCEPT !.pc = "extract"]

AfterExtract(r) ==
  LET z == processZipBlob(r.blob)
  IN  IF ~z.ok
        THEN Caught(r, Err(z.msg, 0))
        ELSE [ Emit([r EXCEPT !.files = z.files],
                    Status("uploading", 10, "Preparing files...")) EXCEPT
                 !.pc = "settings" ]

AfterSettings(r, st) ==
  IF st.repoOwner = "" \/ st.repoName = ""
    THEN LET m == IF st.repoOwner = "" THEN "Repository owner not configured"
                                       ELSE "Repository name not configured"
         IN  Caught(Emit(r, Status("error", 0, m)), Err(m, 0))
    ELSE LET r1 == [r EXCEPT !.owner = st.repoOwner, !.repo = st.repoName,
                             !.branch = TargetBranch(st)]
             r2 == Emit(r1, Status("uploading", 15, "Validating repository access..."))
         IN  Issue(r2, Req("GET", "project", <<>>), "val_project")

\* processZipFile's catch around validateRepository
ValidationFailed(r) ==
  Caught(Emit(r, Status("error", 0, "Repository not found or access denied")),
         Err("Repository not found or access denied", 0))

AfterProject(r, status) ==
  IF status = 200
    THEN Issue(r, Req("GET", "branches", <<>>), "val_branches")
    ELSE ValidationFailed(r)

\* faulty variant: the answer to the branch listing is not looked at
AfterBranchesUnchecked(r, status) == Issue(r, Req("GET", "branch", <<>>), "branch_get")

AfterBranches(r, status) ==
  IF status = 200
    THEN Issue(r, Req("GET", "branch", <<>>), "branch_get")
    ELSE ValidationFailed(r)

\* ensureBranchExists, catch (createError)
CreateFailed(r, status) ==
  IF status = 403
    THEN Caught(r, Err("Insufficient permissions to create branch", 0))
    ELSE Caught(r, Err("Failed to create branch: GitLab API Error", 0))

AfterBranchGet(r, status) ==
  IF status = 200 THEN Filtered(r)
  ELSE IF status = 404
    THEN Issue(Emit(r, Status("uploading", 18, "Creating branch...")),
               Req("GET", "main", <<>>), "branch_main")
  ELSE Caught(r, Err("Failed to check branch existence: GitLab API Error", 0))

\* the create request names the branch whose head commit is its ref: the
\* one read from .../repository/branches/main
AfterBranchMain(r, status) ==
  IF status = 200
    THEN Issue(r, Req("POST", "create_branch", <<"main">>), "branch_create")
    ELSE CreateFailed(r, status)

AfterBranchCreate(r, status) ==
  IF status = 200 THEN Filtered(r) ELSE CreateFailed(r, status)

AfterUploadBranch(r, status) ==
  IF status = 200
    THEN Issue(Emit(r, Status("uploading", 30, "Creating file blobs...")),
               Req("GET", "rate_limit", <<>>), "rate_limit")
    ELSE Caught(r, RequestError(status))

AfterRateLimit(r, status, body) ==
  IF status # 200 THEN Caught(r, RequestError(status))
  ELSE IF body = "plenty" THEN BlobFrom(r, 1)
  ELSE IF body = "low_soon" THEN [r EXCEPT !.pc = "rate_sleep"]
  ELSE Caught(r, Err("Insufficient API rate limit remaining", 0))

AfterRateSleep(r) == Issue(r, Req("GET", "rate_limit", <<>>), "rate_recheck")

AfterRecheck(r, status, body) ==
  IF status # 200 THEN Caught(r, RequestError(status))
  ELSE IF body = "plenty" THEN BlobFrom(r, 1)
  ELSE IF body = "low"
    THEN Caught(r, Err("Insufficient API rate limit remaining even after waiting", 0))
  ELSE Caught(r, Err("TypeError", 0))

\* faulty variant: the loop does not await a task before it starts the next one
AfterBeforeRequestUnawaited(r) ==
  IF r.k < Len(r.processed)
    THEN Issue(Issue(r, FileCreate(r.processed[r.k].path), "blob_post"),
               FileCreate(r.processed[r.k + 1].path), "blob_post")
    ELSE Issue(r, FileCreate(r.processed[r.k].path), "blob_post")

\* the task's request, once beforeRequest() has returned
AfterBeforeRequest(r) == Issue(r, FileCreate(r.processed[r.k].path), "blob_post")

\* RateLimitHandler.handleRateLimit, then the task's catch: wait and let the
\* loop retry the same file, or give up once the retries are used up
handleRateLimit(r) ==
  IF r.retryCount >= RATE_MAX_RETRIES
    THEN Caught(r, Err("Rate limit exceeded. Maximum retries reached", 0))
    ELSE [r EXCEPT !.retryCount = @ + 1, !.completedFiles = @ - 1,
                   !.pc = "before_request"]

\* faulty variant: the catch goes by the status property of whatever was thrown
IsRateLimitSignalByStatus(err) == err.status = 403

\* is this thrown value one the task's catch retries?
IsRateLimitSignal(err) == err.isResponse /\ err.status = 403

\* the task's try block after a request that succeeded, and the loop's
\* step to the next entry
BlobPosted(r) ==
  LET done == r.completedFiles + 1
      r1 == [r EXCEPT !.results = Append(@, r.processed[r.k].path),
                      !.retryCount = 0,
                      !.fileCount = @ + 1,
                      !.completedFiles = done]
      r2 == Emit(r1, StatusN("uploading",
                             20 + ((done * 60) \div Len(r.processed)),
                             "", "Uploading files", done))
  IN  BlobFrom(r2, r.k + 1)

\* faulty variant: the catch logs the error and lets the loop go on to the next file
AfterBlobPostSwallowed(r, status) ==
  IF status = 200 THEN BlobPosted(r) ELSE BlobFrom(r, r.k + 1)

\* the task after its request has settled: the try block, or the catch
AfterBlobPost(r, status) ==
  IF status = 200 THEN BlobPosted(r)
  ELSE IF IsRateLimitSignal(RequestError(status)) THEN handleRateLimit(r)
  ELSE Caught(r, RequestError(status))

AfterCommitPost(r, status) ==
  IF status = 200 THEN CommitFrom(r, r.k + 1) ELSE Caught(r, RequestError(status))

\* ------------------------------------------------------ BackgroundService
\* handleZipData's responses carry no progress property, except the one for
\* success
NoProgress == 0 - 1

ErrorReply(msg) == Status("error", NoProgress, msg)

SuccessReply == Status("success", 100, "Upload completed successfully")

\* sendResponse(port, ...) with the port handleZipData looked up at entry:
\* postMessage reaches the endpoint unless its port has disconnected
Respond(h, st) ==
  [h EXCEPT !.state = "done", !.reply = st,
            !.heard = Recorded({h.port} \cap live),
            !.present = Recorded(Observers)]

\* handleZipData after `await this.withTimeout(...)`: the run has settled
\* first; the response goes to the port looked up at entry
Settled(h, r) ==
  IF r.outcome = "resolved"
    THEN Respond(h, SuccessReply)
    ELSE Respond(h, ErrorReply(Reclassify(r.error.msg)))

\* handleZipData when the timer of withTimeout rejects first
TimedOut(h) ==
  Respond([h EXCEPT !.timedOut = TRUE], ErrorReply(Reclassify(TimeoutMessage)))

\* a step of run i to the record r2; when it settles the run while the
\* handler still awaits it, the handler's continuation runs in the same task
Advance(i, r2) ==
  /\ run' = [run EXCEPT ![i] = r2]
  /\ IF r2.pc = "done" /\ handler[i].state = "racing"
       THEN /\ handler' = [handler EXCEPT ![i] = Settled(@, r2)]
            /\ pendingCommitMessage' =
                 IF r2.outcome = "resolved" THEN DefaultCommitMessage
                                            ELSE pendingCommitMessage
       ELSE UNCHANGED << handler, pendingCommitMessage >>
  /\ UNCHANGED << env, storage, initialized, gitlabService, zipHandler,
                  connHandlers, storageListener, reinit, ports, live, cm, content >>

ValidSettings(st) == st.gitlabToken # "" /\ st.repoOwner # ""

\* initialize(): the service, the ZipHandler and the listeners exist only when
\* the stored settings hold a token and an owner
Initialize ==
  /\ ~initialized
  /\ initialized' = TRUE
  /\ IF ValidSettings(storage)
       THEN /\ gitlabService' = storage.gitlabToken
            /\ zipHandler' = storage.gitlabToken
            /\ connHandlers' = TRUE
            /\ storageListener' = TRUE
       ELSE /\ gitlabService' = None
            /\ UNCHANGED << zipHandler, connHandlers, storageListener >>
  /\ UNCHANGED << env, storage, reinit, ports, live, pendingCommitMessage, handler, run,
                  cm, content >>

\* chrome.runtime.onConnect
Connect(e) ==
  /\ connHandlers
  /\ e \in env.endpoints \ live
  /\ live' = live \cup {e}
  /\ ports' = IF Accepted(e) THEN [ports EXCEPT ![ETab(e)] = e] ELSE ports
  /\ UNCHANGED << env, storage, initialized, gitlabService, zipHandler, connHandlers,
                  storageListener, reinit, pendingCommitMessage, handler, run, cm, content >>

\* port.onDisconnect of an endpoint's port
Disconnect(e) ==
  /\ e \in live
  /\ live' = live \ {e}
  /\ ports' = IF Accepted(e) THEN [ports EXCEPT ![ETab(e)] = None] ELSE ports
  /\ UNCHANGED << env, storage, initialized, gitlabService, zipHandler, connHandlers,
                  storageListener, reinit, pendingCommitMessage, handler, run, cm, content >>

\* the port handlePortMessage finds for a message of endpoint e
PortOf(e) == ports[ETab(e)]

CanSend(e) == e \in live /\ Accepted(e) /\ PortOf(e) # None

\* handlePortMessage, case 'SET_COMMIT_MESSAGE'
SetCommitMessage(e, m) ==
  /\ CanSend(e)
  /\ m # ""
  /\ pendingCommitMessage' = m
  /\ UNCHANGED << env, storage, initialized, gitlabService, zipHandler, connHandlers,
                  storageListener, reinit, ports, live, handler, run, cm, content >>

FreeSlots == {i \in SyncIds : handler[i].state = "unused" /\ i <= env.syncs}

\* handlePortMessage, case 'ZIP_DATA', and handleZipData up to
\* `await this.stateManager.getProjectId()`
ZipData(e, blob) ==
  /\ CanSend(e)
  /\ FreeSlots # {}
  /\ LET i == CHOOSE j \in FreeSlots : \A j2 \in FreeSlots : j <= j2
         h == [IdleHandler EXCEPT !.tab = ETab(e), !.port = PortOf(e),
                                  !.overlapped = \E j \in SyncIds : InFlight(run[j])]
     IN  /\ handler' =
               [handler EXCEPT ![i] =
                  IF gitlabService = None
                    THEN Respond(h, ErrorReply("GitLab service not initialized"))
                  ELSE IF zipHandler = None
                    THEN Respond(h, ErrorReply("ZIP handler not initialized"))
                  ELSE [h EXCEPT !.state = "project_id"]]
         /\ run' = [run EXCEPT ![i] = [IdleRun EXCEPT !.blob = blob]]
  /\ UNCHANGED << env, storage, initialized, gitlabService, zipHandler, connHandlers,
                  storageListener, reinit, ports, live, pendingCommitMessage, cm, content >>

\* handleZipData from the project id to `await this.withTimeout(...)`, and
\* the synchronous start of processZipFile
ProjectIdRead(i) ==
  /\ handler[i].state = "project_id"
  /\ IF storage.projectId = ""
       THEN /\ handler' = [handler EXCEPT ![i] =
                             Respond(@, ErrorReply("Project ID not found"))]
            /\ UNCHANGED << run, pendingCommitMessage >>
       ELSE LET r2 == StartRun(run[i].blob, pendingCommitMessage)
                h2 == [handler[i] EXCEPT !.state = "racing"]
            IN  /\ run' = [run EXCEPT ![i] = r2]
                /\ handler' = [handler EXCEPT ![i] =
                                 IF r2.pc = "done" THEN Settled(h2, r2) ELSE h2]
                /\ UNCHANGED pendingCommitMessage
  /\ UNCHANGED << env, storage, initialized, gitlabService, zipHandler, connHandlers,
                  storageListener, reinit, ports, live, cm, content >>

\* the 5 minute timer of withTimeout fires before the run has settled
Timeout(i) ==
  /\ handler[i].state = "racing"
  /\ handler' = [handler EXCEPT ![i] = TimedOut(@)]
  /\ UNCHANGED << env, storage, initialized, gitlabService, zipHandler, connHandlers,
                  storageListener, reinit, ports, live, pendingCommitMessage, run, cm, content >>

\* ------------------------------------------------------- steps of a run
Extracted(i) == run[i].pc = "extract" /\ Advance(i, AfterExtract(run[i]))

SettingsRead(i) == run[i].pc = "settings" /\ Advance(i, AfterSettings(run[i], storage))

ProjectAnswered(i, status) ==
  run[i].pc = "val_project" /\ Advance(i, AfterProject(Answer(run[i], status), status))

BranchesAnswered(i, status) ==
  run[i].pc = "val_branches" /\ Advance(i, AfterBranches(Answer(run[i], status), status))

BranchGetAnswered(i, status) ==
  run[i].pc = "branch_get" /\ Advance(i, AfterBranchGet(Answer(run[i], status), status))

BranchMainAnswered(i, status) ==
  run[i].pc = "branch_main" /\ Advance(i, AfterBranchMain(Answer(run[i], status), status))

BranchCreateAnswered(i, status) ==
  run[i].pc = "branch_create" /\ Advance(i, AfterBranchCreate(Answer(run[i], status), status))

UploadBranchAnswered(i, status) ==
  run[i].pc = "upload_branch" /\ Advance(i, AfterUploadBranch(Answer(run[i], status), status))

RateLimitAnswered(i, status, body) ==
  run[i].pc = "rate_limit" /\ Advance(i, AfterRateLimit(Answer(run[i], status), status, body))

RateSleepOver(i) == run[i].pc = "rate_sleep" /\ Advance(i, AfterRateSleep(run[i]))

RecheckAnswered(i, status, body) ==
  run[i].pc = "rate_recheck" /\ Advance(i, AfterRecheck(Answer(run[i], status), status, body))

BeforeRequestOver(i) ==
  run[i].pc = "before_request" /\ Advance(i, AfterBeforeRequest(run[i]))

BlobPostAnswered(i, status) ==
  run[i].pc = "blob_post" /\ Advance(i, AfterBlobPost(Answer(run[i], status), status))

CommitPostAnswered(i, status) ==
  run[i].pc = "commit_post" /\ Advance(i, AfterCommitPost(Answer(run[i], status), status))

\* the timer processZipFile sets after success: updateStatus('idle', 0, '')
IdleTimer(i) ==
  /\ run[i].idleTimer
  /\ Advance(i, [Emit(run[i], Status("idle", 0, "")) EXCEPT !.idleTimer = FALSE])

\* chrome.tabs.onRemoved: the tab's entry goes, and so do the tab's ports
TabRemoved(t) ==
  /\ connHandlers
  /\ t # 0 - 1
  /\ \E e \in live : ETab(e) = t
  /\ ports' = [ports EXCEPT ![t] = None]
  /\ live' = {e \in live : ETab(e) # t}
  /\ UNCHANGED << env, storage, initialized, gitlabService, zipHandler, connHandlers,
                  storageListener, reinit, pendingCommitMessage, handler, run, cm, content >>

\* initializeGitLabService(): the service built from the settings read, or
\* null when the token or the owner is missing
\* faulty variant: incomplete settings leave the earlier service in place
initializeGitLabServiceKeeping(st) ==
  IF ValidSettings(st) THEN st.gitlabToken ELSE gitlabService

initializeGitLabService(st) ==
  IF ValidSettings(st) THEN st.gitlabToken ELSE None

\* the values the options page can store for the token and the owner
StoredTokens == {"", "token", "token2"}

StoredOwners == {"", "owner"}

\* chrome.storage.sync is written; chrome.storage.onChanged calls the storage
\* listener, when one is registered, which runs up to
\* `await this.stateManager.getSettings()`
StorageChanged(token, owner) ==
  /\ reinit.changes < env.changes
  /\ << token, owner >> # << storage.gitlabToken, storage.repoOwner >>
  /\ storage' = [storage EXCEPT !.gitlabToken = token, !.repoOwner = owner]
  /\ reinit' = [changes |-> reinit.changes + 1,
                pending |-> reinit.pending + (IF storageListener THEN 1 ELSE 0)]
  /\ UNCHANGED << env, initialized, gitlabService, zipHandler, connHandlers,
                  storageListener, ports, live, pendingCommitMessage, handler, run, cm, content >>

StoredNames == {"repo", "repo2"}

StoredBranches == {"", "dev"}

\* chrome.storage.sync is written with another repository name or branch;
\* the storage listener, when one is registered, runs as for any of its keys
RepositoryChanged(name, branch) ==
  /\ reinit.changes < env.changes
  /\ << name, branch >> # << storage.repoName, storage.branch >>
  /\ storage' = [storage EXCEPT !.repoName = name, !.branch = branch]
  /\ reinit' = [changes |-> reinit.changes + 1,
                pending |-> reinit.pending + (IF storageListener THEN 1 ELSE 0)]
  /\ UNCHANGED << env, initialized, gitlabService, zipHandler, connHandlers,
                  storageListener, ports, live, pendingCommitMessage, handler, run, cm, content >>

\* the storage listener from the settings it reads to its end: the service
\* is replaced, the ZipHandler only when there is a service
StorageListenerResumed ==
  /\ reinit.pending > 0
  /\ reinit' = [reinit EXCEPT !.pending = @ - 1]
  /\ gitlabService' = initializeGitLabService(storage)
  /\ zipHandler' = IF gitlabService' # None THEN gitlabService' ELSE zipHandler
  /\ UNCHANGED << env, storage, initialized, connHandlers, storageListener, ports, live,
                  pendingCommitMessage, handler, run, cm, content >>

\* ------------------------------------------------------ ConnectionManager
\* The repository holds two versions of the class: src/lib/ConnectionManager.ts
\* ("lib") and a second one whose connect() disconnects first and retries
\* with a backoff ("retrying").  cm.variant says which one a behaviour runs.
\* Ports are numbered from 1 in the order chrome.runtime.connect returns them;
\* 0 is null.  Messages are numbered in the order sendMessage is called.
CmVariants == {"lib", "retrying"}

MAX_RETRIES(variant) == IF variant = "lib" THEN 3 ELSE 5

RETRY_DELAY(variant) == IF variant = "lib" THEN 1000 ELSE 2000

\* connect()'s local maxRetries and retryDelay ("retrying" version)
ConnectMaxRetries == 3

ConnectRetryDelay == 1000

RECURSIVE Pow2(_)
Pow2(n) == IF n <= 0 THEN 1 ELSE 2 * Pow2(n - 1)

CmInit(variant) ==
  [ variant |-> variant,
    port |-> 0,              \* this.port
    messageQueue |-> <<>>,   \* this.messageQueue
    retryCount |-> 0,        \* this.retryCount
    open |-> {},             \* the ports that are connected
    nextPort |-> 1,
    runtimeAlive |-> TRUE,   \* chrome.runtime.id is set
    timers |-> <<>>,         \* delays of the pending setTimeout(reconnect)
    sleepers |-> <<>>,       \* connect() calls asleep in their backoff
    posted |-> <<>>,         \* the successful port.postMessage calls
    discarded |-> {},        \* queued messages dropped, and by which call
    notified |-> <<>>,       \* what the connection listeners were told
    exhausted |-> 0,         \* connect() calls that failed on their last attempt
    scheduled |-> 0,         \* reconnections scheduled since the last connection
    toldTransient |-> {},    \* what listeners were told on a transient drop
    toldGone |-> {},         \* what listeners were told when the host was gone
    closed |-> FALSE,        \* the owner's last call was disconnect()
    sends |-> 0, connects |-> 0, drops |-> 0, disconnects |-> 0 ]

notifyConnectionStatus(c, connected) == [c EXCEPT !.notified = Append(@, connected)]

\* disconnect(), called by the owner or (in the "retrying" version) by connect()
disconnectBy(c, caller) ==
  notifyConnectionStatus(
    [c EXCEPT !.open = @ \ {c.port},
              !.port = 0,
              !.discarded = @ \cup {[msg |-> c.messageQueue[k], by |-> caller] :
                                      k \in 1..Len(c.messageQueue)},
              !.messageQueue = <<>>,
              !.retryCount = 0],
    FALSE)

\* port.postMessage throws on a port that is no longer connected
CanPost(c) == c.port # 0 /\ c.port \in c.open

processMessageQueue(c) ==
  IF CanPost(c)
    THEN [c EXCEPT !.posted = @ \o [k \in 1..Len(c.messageQueue) |->
                                      [msg |-> c.messageQueue[k], port |-> c.port]],
                   !.messageQueue = <<>>]
    ELSE c

sendMessage(c, msg) ==
  IF CanPost(c)
    THEN [c EXCEPT !.posted = Append(@, [msg |-> msg, port |-> c.port])]
    ELSE [c EXCEPT !.messageQueue = Append(@, msg)]

\* chrome.runtime.connect returned a port; setupPortListeners; notify
Opened(c) ==
  notifyConnectionStatus(
    [c EXCEPT !.port = c.nextPort, !.open = @ \cup {c.nextPort}, !.nextPort = @ + 1,
              !.scheduled = 0],
    TRUE)

\* what runs after connect() has returned true: nothing for the owner,
\* the rest of reconnect() for the timer
AfterConnected(c, caller) ==
  IF caller = "reconnect"
    THEN processMessageQueue([c EXCEPT !.retryCount = 0])
    ELSE c

\* connect() of src/lib/ConnectionManager.ts; ok: chrome.runtime.connect
\* returns a port rather than throwing
connectLib(c, caller, ok) ==
  IF ~c.runtimeAlive THEN notifyConnectionStatus(c, FALSE)
  ELSE IF ~ok THEN notifyConnectionStatus(c, FALSE)
  ELSE AfterConnected(Opened(c), caller)

\* one pass of the retry loop of the "retrying" connect(), `retries` failed
\* attempts behind it
\* faulty variant: the loop has no last attempt
connectAttemptUnbounded(c, caller, retries, ok) ==
  IF ok /\ c.runtimeAlive THEN AfterConnected(Opened(c), caller)
  ELSE [c EXCEPT !.sleepers = Append(@, [caller |-> caller, retries |-> retries + 1,
                                        delay |-> ConnectRetryDelay * Pow2(retries)])]

connectAttempt(c, caller, retries, ok) ==
  IF ok /\ c.runtimeAlive THEN AfterConnected(Opened(c), caller)
  ELSE IF retries + 1 = ConnectMaxRetries
    THEN notifyConnectionStatus([c EXCEPT !.exhausted = @ + 1], FALSE)
  ELSE [c EXCEPT !.sleepers = Append(@, [caller |-> caller, retries |-> retries + 1,
                                        delay |-> ConnectRetryDelay * Pow2(retries)])]

connectRetrying(c, caller, ok) ==
  IF ~c.runtimeAlive THEN notifyConnectionStatus(c, FALSE)
  ELSE connectAttempt(disconnectBy(c, "connect"), caller, 0, ok)

connect(c, caller, ok) ==
  IF c.variant = "lib" THEN connectLib(c, caller, ok) ELSE connectRetrying(c, caller, ok)

\* the port's onDisconnect listener; invalidated: chrome.runtime.lastError
\* says 'Extension context invalidated'
onDisconnect(c, invalidated) ==
  LET c0 == IF c.runtimeAlive /\ ~invalidated
              THEN [c EXCEPT !.toldTransient = @ \cup {FALSE}]
              ELSE [c EXCEPT !.toldGone = @ \cup {FALSE}]
      c1 == notifyConnectionStatus(c0, FALSE)
  IN  IF c.runtimeAlive /\ ~invalidated /\ c.retryCount < MAX_RETRIES(c.variant)
        THEN [c1 EXCEPT !.retryCount = @ + 1,
                        !.scheduled = @ + 1,
                        !.timers = Append(@, RETRY_DELAY(c.variant) * Pow2(c.retryCount))]
        ELSE c1

RemoveAt(seq, k) == [j \in 1..(Len(seq) - 1) |-> IF j < k THEN seq[j] ELSE seq[j + 1]]

cmFrame == UNCHANGED << env, storage, initialized, gitlabService, zipHandler,
                        connHandlers, storageListener, reinit, ports, live,
                        pendingCommitMessage, handler, run, content >>

\* the owner calls connect()
CmConnect(ok) ==
  /\ cm.connects < env.connects
  /\ cm' = connect([cm EXCEPT !.connects = @ + 1, !.closed = FALSE], "owner", ok)
  /\ cmFrame

\* the owner calls sendMessage
CmSend ==
  /\ cm.sends < env.sends
  /\ cm' = sendMessage([cm EXCEPT !.sends = @ + 1], cm.sends + 1)
  /\ cmFrame

\* the owner calls disconnect()
CmDisconnect ==
  /\ cm.disconnects < env.disconnects
  /\ cm' = disconnectBy([cm EXCEPT !.disconnects = @ + 1, !.closed = env.observe],
                        "disconnect")
  /\ cmFrame

\* the other side closes port p, or the extension context goes away
CmPortDrop(p, invalidated) ==
  /\ cm.drops < env.drops
  /\ p \in cm.open
  /\ cm' = onDisconnect([cm EXCEPT !.drops = @ + 1, !.open = @ \ {p},
                                    !.runtimeAlive = @ /\ ~invalidated],
                        invalidated)
  /\ cmFrame

\* a reconnection timer fires: reconnect()
CmReconnectTimer(k, ok) ==
  /\ k \in 1..Len(cm.timers)
  /\ cm' = connect([cm EXCEPT !.timers = RemoveAt(@, k)], "reconnect", ok)
  /\ cmFrame

\* a backoff sleep of the "retrying" connect() is over
CmBackoffOver(k, ok) ==
  /\ k \in 1..Len(cm.sleepers)
  /\ cm' = connectAttempt([cm EXCEPT !.sleepers = RemoveAt(@, k)],
                          cm.sleepers[k].caller, cm.sleepers[k].retries, ok)
  /\ cmFrame

\* --------------------------------------------------------- ContentManager
\* The content script's manager of its port to the background service.  Ports
\* are numbered from 1 in the order chrome.runtime.connect returns them; 0 is
\* null.  reconnect() and initialize() await only a promise that is resolved
\* in its executor when chrome.runtime.id is set, so each runs to its end
\* before the next event of the page is handled.
MAX_RECONNECT_ATTEMPTS == 5

\* what chrome.runtime.connect does in initializeConnection: it returns a
\* port, throws 'Extension context invalidated', or throws something else
ConnectOutcomes == {"port", "invalidated", "error"}

NewContentManager ==
  [ created |-> FALSE,        \* ContentManager.create() has run
    port |-> 0,               \* this.port
    isReconnecting |-> FALSE,
    reconnectAttempts |-> 0,
    isInitialized |-> FALSE,
    uiManager |-> FALSE,      \* this.uiManager is defined
    listeners |-> 0,          \* calls of setupEventListeners: focus listeners
    timers |-> 0,             \* pending setTimeout(reconnect)
    open |-> {},              \* the ports that are connected
    nextPort |-> 1,
    runtimeAlive |-> TRUE,    \* chrome.runtime.id is set
    shown |-> <<>>,           \* the notifications shown, in order
    awaiting |-> FALSE,       \* a port was lost or an attempt failed, and since
                              \* then no port was opened and nothing was shown
    events |-> 0 ]

\* uiManager?.showNotification
showNotification(c, kind) ==
  IF c.uiManager THEN [c EXCEPT !.shown = Append(@, kind), !.awaiting = FALSE] ELSE c

notifyUserOfExtensionReload(c) == showNotification(c, "reload")

notifyUserOfError(c) == showNotification(c, "error")

\* cleanup(): port.disconnect() closes the port without calling this side's
\* onDisconnect listener
contentCleanup(c) ==
  [c EXCEPT !.open = @ \ {c.port}, !.port = 0, !.isReconnecting = FALSE,
            !.reconnectAttempts = 0, !.isInitialized = FALSE]

handleExtensionContextInvalidated(c) == notifyUserOfExtensionReload(contentCleanup(c))

\* faulty variant: a reconnection is scheduled whatever the state of the runtime
handleDisconnectionUnchecked(c) ==
  IF c.reconnectAttempts >= MAX_RECONNECT_ATTEMPTS
    THEN notifyUserOfError(contentCleanup(c))
  ELSE IF c.isReconnecting THEN c
  ELSE [c EXCEPT !.isReconnecting = TRUE, !.reconnectAttempts = @ + 1,
                 !.timers = @ + 1]

handleDisconnection(c) ==
  IF c.reconnectAttempts >= MAX_RECONNECT_ATTEMPTS
    THEN notifyUserOfError(contentCleanup(c))
  ELSE IF c.isReconnecting THEN c
  ELSE IF ~c.runtimeAlive THEN notifyUserOfExtensionReload(contentCleanup(c))
  ELSE [c EXCEPT !.isReconnecting = TRUE, !.reconnectAttempts = @ + 1,
                 !.timers = @ + 1]

\* initializeConnection() with chrome.runtime.id set: the manager it leaves
\* and whether it threw
initializeConnection(c, outcome) ==
  IF outcome = "port"
    THEN [ c |-> [c EXCEPT !.port = c.nextPort, !.open = @ \cup {c.nextPort},
                           !.nextPort = @ + 1, !.isReconnecting = FALSE,
                           !.reconnectAttempts = 0, !.awaiting = FALSE],
           threw |-> FALSE ]
  ELSE IF outcome = "invalidated"
    THEN [ c |-> handleExtensionContextInvalidated([c EXCEPT !.runtimeAlive = FALSE]),
           threw |-> FALSE ]
  ELSE [ c |-> c, threw |-> TRUE ]

reconnect(c, outcome) ==
  IF c.reconnectAttempts >= MAX_RECONNECT_ATTEMPTS
    THEN notifyUserOfError(contentCleanup(c))
  ELSE IF c.runtimeAlive
    THEN LET r == initializeConnection(c, outcome)
         IN  IF r.threw THEN handleDisconnection([r.c EXCEPT !.awaiting = TRUE])
             ELSE IF r.c.port # 0
               THEN [r.c EXCEPT !.listeners = @ + 1, !.isReconnecting = FALSE,
                                !.reconnectAttempts = 0]
             ELSE r.c
  ELSE notifyUserOfExtensionReload(contentCleanup(c))

\* initialize(): the manager it leaves and whether it threw
contentInitialize(c, outcome) ==
  IF c.isInitialized THEN [c |-> c, threw |-> FALSE]
  ELSE LET r == initializeConnection(c, outcome)
       IN  IF r.threw
             THEN [c |-> notifyUserOfError(r.c), threw |-> TRUE]
             ELSE [c |-> [r.c EXCEPT !.uiManager = TRUE, !.listeners = @ + 1,
                                     !.isInitialized = TRUE],
                   threw |-> FALSE]

reinitialize(c, outcome) ==
  LET r == contentInitialize(contentCleanup(c), outcome)
  IN  IF r.threw THEN notifyUserOfError(r.c) ELSE r.c

\* the focus listeners, one per call of setupEventListeners, one after the
\* other
RECURSIVE focusListeners(_, _, _)
focusListeners(c, n, outcome) ==
  IF n = 0 THEN c
  ELSE focusListeners(IF c.port = 0 /\ ~c.isReconnecting THEN reconnect(c, outcome) ELSE c,
                      n - 1, outcome)

contentFrame == UNCHANGED << env, storage, initialized, gitlabService, zipHandler,
                             connHandlers, storageListener, reinit, ports, live,
                             pendingCommitMessage, handler, run, cm >>

\* ContentManager.create() in a script that was just injected: the
\* extension context is valid
ContentCreate(outcome) ==
  /\ ~content.created
  /\ outcome # "invalidated"
  /\ content' = contentInitialize([content EXCEPT !.created = TRUE], outcome).c
  /\ contentFrame

\* the other side closes port p, or the extension context goes away: the
\* onDisconnect listener of p
ContentPortDrop(p, invalidated) ==
  /\ content.events < MaxPageEvents
  /\ p \in content.open
  /\ LET c == [content EXCEPT !.events = @ + 1, !.open = @ \ {p},
                              !.runtimeAlive = @ /\ ~invalidated,
                              !.awaiting = @ \/ (p = content.port /\ ~invalidated)]
     IN  content' = IF invalidated THEN handleExtensionContextInvalidated(c)
                                   ELSE handleDisconnection(c)
  /\ contentFrame

\* a reconnection timer fires
ContentReconnectTimer(outcome) ==
  /\ content.timers > 0
  /\ content' = reconnect([content EXCEPT !.timers = @ - 1], outcome)
  /\ contentFrame

\* the window gets the focus
ContentFocus(outcome) ==
  /\ content.events < MaxPageEvents
  /\ content.listeners > 0
  /\ content' = focusListeners([content EXCEPT !.events = @ + 1], content.listeners,
                               outcome)
  /\ contentFrame

\* reinitialize() is called: by a chrome.runtime.onConnect listener, which
\* does not run once the context is gone, or by onExecute in a script that
\* was just injected
ContentReinitialize(outcome) ==
  /\ content.events < MaxPageEvents
  /\ content.created
  /\ content.runtimeAlive
  /\ content.listeners = 0 => outcome # "invalidated"
  /\ content' = reinitialize([content EXCEPT !.events = @ + 1], outcome)
  /\ contentFrame

\* ------------------------------------------------------------ specifications
\* What the environment of the background service does in one behaviour:
\* the endpoints that exist, the archives they send, how many syncs they ask
\* for, how the remote answers.
EnvCoordinator ==
  [ endpoints |-> {"content1", "popupA"}, archives |-> {ArchiveOne},
    syncs |-> MaxSyncs, statuses |-> {200, 404}, messages |-> {},
    rateBodies |-> {"plenty", "low_soon"}, recheckBodies |-> {"plenty"},
    observe |-> FALSE ]

EnvPipeline ==
  [ endpoints |-> {"content1"}, archives |-> Archives,
    syncs |-> 1, statuses |-> Statuses, messages |-> {"Custom message"},
    rateBodies |-> RateBodies, recheckBodies |-> RecheckBodies,
    observe |-> FALSE ]

EnvNone ==
  [ endpoints |-> {}, archives |-> {}, syncs |-> 0, statuses |-> {}, messages |-> {},
    rateBodies |-> {}, recheckBodies |-> {}, observe |-> FALSE,
    sends |-> MaxSends, connects |-> MaxConnects, drops |-> MaxDrops,
    disconnects |-> MaxDisconnects ]

\* an owner that connects again and again, sends nothing, and whose ports
\* the other side closes
EnvReconnect ==
  [ EnvNone EXCEPT !.sends = 0, !.connects = MaxPorts, !.drops = MaxPorts - 1,
                   !.disconnects = 1 ]

\* two observing endpoints that stay connected, one request, and a record of
\* who receives what
EnvObservers ==
  [ endpoints |-> {"content1", "popupA"}, archives |-> {ArchiveOne},
    syncs |-> 1, statuses |-> {200, 404}, messages |-> {},
    rateBodies |-> {"plenty", "low_soon"}, recheckBodies |-> {"plenty"},
    observe |-> TRUE ]

Settings(token, owner, name, branch, projectId) ==
  [ gitlabToken |-> token, repoOwner |-> owner, repoName |-> name,
    branch |-> branch, projectId |-> projectId ]

\* the state after `new BackgroundService()`, before initialize() has run
Constructed ==
  /\ initialized = FALSE
  /\ gitlabService = None
  /\ zipHandler = None
  /\ connHandlers = FALSE
  /\ storageListener = FALSE
  /\ reinit = [changes |-> 0, pending |-> 0]
  /\ ports = [t \in TabIds |-> None]
  /\ live = {}
  /\ pendingCommitMessage = DefaultCommitMessage
  /\ handler = [i \in SyncIds |-> IdleHandler]
  /\ run = [i \in SyncIds |-> IdleRun]

StoredSettings ==
  { Settings("token", "owner", "repo", "dev", "p1"),
    Settings("token", "owner", "repo", "", "p1"),
    Settings("token", "owner", "", "", "p1"),
    Settings("token", "owner", "repo", "", ""),
    Settings("", "owner", "repo", "", "p1") }

\* the background service with one endpoint and one request, over every
\* archive, every stored configuration and every answer of the remote
Init ==
  /\ env = EnvPipeline
  /\ storage \in StoredSettings
  /\ Constructed
  /\ cm = CmInit("lib")
  /\ content = NewContentManager

\* the background service with several endpoints and concurrent requests
InitCoordinator ==
  /\ env = EnvCoordinator
  /\ storage = Settings("token", "owner", "repo", "", "p1")
  /\ Constructed
  /\ cm = CmInit("lib")
  /\ content = NewContentManager

\* the steps of the handleZipData and processZipFile invocations
SyncStep ==
  \/ \E i \in SyncIds : ProjectIdRead(i)
  \/ \E i \in SyncIds : Timeout(i)
  \/ \E i \in SyncIds : Extracted(i)
  \/ \E i \in SyncIds : SettingsRead(i)
  \/ \E i \in SyncIds : \E s \in env.statuses : ProjectAnswered(i, s)
  \/ \E i \in SyncIds : \E s \in env.statuses : BranchesAnswered(i, s)
  \/ \E i \in SyncIds : \E s \in env.statuses : BranchGetAnswered(i, s)
  \/ \E i \in SyncIds : \E s \in env.statuses : BranchMainAnswered(i, s)
  \/ \E i \in SyncIds : \E s \in env.statuses : BranchCreateAnswered(i, s)
  \/ \E i \in SyncIds : \E s \in env.statuses : UploadBranchAnswered(i, s)
  \/ \E i \in SyncIds : \E s \in env.statuses : \E b \in env.rateBodies :
       RateLimitAnswered(i, s, b)
  \/ \E i \in SyncIds : RateSleepOver(i)
  \/ \E i \in SyncIds : \E s \in env.statuses : \E b \in env.recheckBodies :
       RecheckAnswered(i, s, b)
  \/ \E i \in SyncIds : BeforeRequestOver(i)
  \/ \E i \in SyncIds : \E s \in env.statuses : BlobPostAnswered(i, s)
  \/ \E i \in SyncIds : \E s \in env.statuses : CommitPostAnswered(i, s)
  \/ \E i \in SyncIds : IdleTimer(i)

Next ==
  \/ Initialize
  \/ \E e \in EndpointIds : Connect(e)
  \/ \E e \in EndpointIds : Disconnect(e)
  \/ \E t \in TabIds : TabRemoved(t)
  \/ \E e \in EndpointIds : \E m \in env.messages : SetCommitMessage(e, m)
  \/ \E e \in EndpointIds : \E blob \in env.archives : ZipData(e, blob)
  \/ SyncStep

Spec == Init /\ [][Next]_vars

\* the messages and steps that concern concurrent archive requests
NextCoordinator ==
  \/ Initialize
  \/ \E e \in EndpointIds : Connect(e)
  \/ \E e \in EndpointIds : Disconnect(e)
  \/ \E e \in EndpointIds : \E blob \in env.archives : ZipData(e, blob)
  \/ SyncStep

SpecCoordinator == InitCoordinator /\ [][NextCoordinator]_vars

\* the background service with endpoints that connect and stay, and the
\* record of the messages each of them receives
InitObservers ==
  /\ env = EnvObservers
  /\ storage = Settings("token", "owner", "repo", "", "p1")
  /\ Constructed
  /\ cm = CmInit("lib")
  /\ content = NewContentManager

NextObservers ==
  \/ Initialize
  \/ \E e \in EndpointIds : Connect(e)
  \/ \E e \in EndpointIds : \E blob \in env.archives : ZipData(e, blob)
  \/ SyncStep

SpecObservers == InitObservers /\ [][NextObservers]_vars

\* the background service while the stored settings are rewritten: one
\* endpoint, one request, settings that are complete or not at the start
EnvSettings ==
  [ endpoints |-> {"content1"}, archives |-> {ArchiveOne},
    syncs |-> 1, statuses |-> {200, 404}, messages |-> {},
    rateBodies |-> {"plenty", "low_soon"}, recheckBodies |-> {"plenty"},
    observe |-> FALSE, changes |-> MaxChanges ]

InitSettings ==
  /\ env = EnvSettings
  /\ storage \in { Settings("token", "owner", "repo", "", "p1"),
                   Settings("", "owner", "repo", "", "p1") }
  /\ Constructed
  /\ cm = CmInit("lib")
  /\ content = NewContentManager

NextSettings ==
  \/ Initialize
  \/ \E e \in EndpointIds : Connect(e)
  \/ \E e \in EndpointIds : \E blob \in env.archives : ZipData(e, blob)
  \/ \E token \in StoredTokens : \E owner \in StoredOwners : StorageChanged(token, owner)
  \/ StorageListenerResumed
  \/ SyncStep

SpecSettings == InitSettings /\ [][NextSettings]_vars

\* the background service with every kind of endpoint connecting and
\* disconnecting, and no archive request
EnvPorts ==
  [ endpoints |-> EndpointIds, archives |-> {}, syncs |-> 0, statuses |-> {},
    messages |-> {"Custom message"}, rateBodies |-> {}, recheckBodies |-> {},
    observe |-> FALSE ]

InitPorts ==
  /\ env = EnvPorts
  /\ storage = Settings("token", "owner", "repo", "", "p1")
  /\ Constructed
  /\ cm = CmInit("lib")
  /\ content = NewContentManager

NextPorts ==
  \/ Initialize
  \/ \E e \in EndpointIds : Connect(e)
  \/ \E e \in EndpointIds : Disconnect(e)
  \/ \E t \in TabIds : TabRemoved(t)
  \/ \E e \in EndpointIds : \E m \in env.messages : SetCommitMessage(e, m)

SpecPorts == InitPorts /\ [][NextPorts]_vars

\* the background service against a repository whose default branch is
\* named main or master: one endpoint, one request, a target branch that the
\* repository may lack
EnvBranch(defaultBranch) ==
  [ endpoints |-> {"content1"}, archives |-> {ArchiveOne},
    syncs |-> 1, statuses |-> {200, 403, 404, 500}, messages |-> {},
    rateBodies |-> {"plenty", "low_soon"}, recheckBodies |-> {"plenty"},
    observe |-> FALSE, defaultBranch |-> defaultBranch ]

InitBranch ==
  /\ env \in {EnvBranch(d) : d \in {"main", "master"}}
  /\ storage \in { Settings("token", "owner", "repo", "dev", "p1"),
                   Settings("token", "owner", "repo", "", "p1") }
  /\ Constructed
  /\ cm = CmInit("lib")
  /\ content = NewContentManager

SpecBranch == InitBranch /\ [][NextObservers]_vars

\* the entries generated archives are made of: plain files, files under
\* project/, ignore files with rules, empty and blank, files the default
\* patterns match, a directory marker, a blank file and a file that is no text
EntryPool ==
  { Entry(<<"a.txt">>, <<"A">>),
    Entry(<<"project", "a.txt">>, <<"P">>),
    Entry(<<"project", "project", "a.txt">>, <<"Q">>),
    Entry(<<".gitignore">>, <<"a.txt">>),
    Entry(<<".gitignore">>, <<"">>),
    Entry(<<".gitignore">>, <<" ">>),
    Entry(<<"project", ".gitignore">>, <<"dist/">>),
    Entry(<<"dist", "app.js">>, <<"D">>),
    Entry(<<"node_modules", "x.js">>, <<"X">>),
    Entry(<<"dist", "">>, <<"">>),
    Entry(<<"b.txt">>, <<" ">>),
    Binary(<<"logo.png">>) }

\* the well-formed archives of up to MaxEntries pool entries with distinct
\* paths, in every order
PooledArchives ==
  { Blob(100, TRUE, es) :
      es \in { f \in UNION {[1..n -> EntryPool] : n \in 1..MaxEntries} :
                \A a, b \in 1..Len(f) : a # b => f[a].path # f[b].path } }

\* the background service with one request, whose archive is a generated one
\* or one that cannot be extracted, and a remote that accepts everything, up
\* to the end of the filter
InitArchives ==
  /\ env \in { [ endpoints |-> {"content1"}, archives |-> {blob},
                  syncs |-> 1, statuses |-> {200}, messages |-> {},
                  rateBodies |-> {}, recheckBodies |-> {}, observe |-> FALSE ] :
                blob \in PooledArchives
                           \cup {ArchiveEmpty, ArchiveCorrupt, ArchiveNoEntries} }
  /\ storage = Settings("token", "owner", "repo", "", "p1")
  /\ Constructed
  /\ cm = CmInit("lib")
  /\ content = NewContentManager

NextArchives ==
  \/ Initialize
  \/ \E e \in EndpointIds : Connect(e)
  \/ \E e \in EndpointIds : \E blob \in env.archives : ZipData(e, blob)
  \/ \E i \in SyncIds : ProjectIdRead(i)
  \/ \E i \in SyncIds : Extracted(i)
  \/ \E i \in SyncIds : SettingsRead(i)
  \/ \E i \in SyncIds : \E s \in env.statuses : ProjectAnswered(i, s)
  \/ \E i \in SyncIds : \E s \in env.statuses : BranchesAnswered(i, s)
  \/ \E i \in SyncIds : \E s \in env.statuses : BranchGetAnswered(i, s)

SpecArchives == InitArchives /\ [][NextArchives]_vars

\* the background service with one request while the stored owner, repository
\* name and branch are rewritten
InitTarget ==
  /\ env = EnvSettings
  /\ storage \in { Settings("token", "owner", "repo", "", "p1"),
                   Settings("token", "owner", "repo2", "dev", "p1") }
  /\ Constructed
  /\ cm = CmInit("lib")
  /\ content = NewContentManager

NextTarget ==
  \/ Initialize
  \/ \E e \in EndpointIds : Connect(e)
  \/ \E e \in EndpointIds : \E blob \in env.archives : ZipData(e, blob)
  \/ \E token \in StoredTokens : \E owner \in StoredOwners : StorageChanged(token, owner)
  \/ \E name \in StoredNames : \E branch \in StoredBranches :
       RepositoryChanged(name, branch)
  \/ StorageListenerResumed
  \/ SyncStep

SpecTarget == InitTarget /\ [][NextTarget]_vars

\* one content script: its page's events, its timers and what
\* chrome.runtime.connect does
InitContent ==
  /\ env = EnvNone
  /\ storage = Settings("", "", "", "", "")
  /\ Constructed
  /\ cm = CmInit("lib")
  /\ content = NewContentManager

NextContent ==
  \/ \E o \in ConnectOutcomes : ContentCreate(o)
  \/ \E p \in 1..(2 * MaxPageEvents + 2) : \E inv \in BOOLEAN : ContentPortDrop(p, inv)
  \/ \E o \in ConnectOutcomes : ContentReconnectTimer(o)
  \/ \E o \in ConnectOutcomes : ContentFocus(o)
  \/ \E o \in ConnectOutcomes : ContentReinitialize(o)

SpecContent == InitContent /\ [][NextContent]_vars

InitConn ==
  /\ env = EnvNone
  /\ storage = Settings("", "", "", "", "")
  /\ Constructed
  /\ cm \in {CmInit(v) : v \in CmVariants}
  /\ content = NewContentManager

NextConn ==
  \/ \E ok \in BOOLEAN : CmConnect(ok)
  \/ CmSend
  \/ CmDisconnect
  \/ \E p \in 1..(env.connects + env.drops) : \E inv \in BOOLEAN : CmPortDrop(p, inv)
  \/ \E k \in 1..env.drops : \E ok \in BOOLEAN : CmReconnectTimer(k, ok)
  \/ \E k \in 1..(env.connects + env.drops) : \E ok \in BOOLEAN : CmBackoffOver(k, ok)

SpecConn == InitConn /\ [][NextConn]_vars

\* both versions of the connection manager with an owner that connects,
\* sends and disconnects, and the record of whose call came last
InitClose ==
  /\ env = [EnvNone EXCEPT !.observe = TRUE, !.sends = 1]
  /\ storage = Settings("", "", "", "", "")
  /\ Constructed
  /\ cm \in {CmInit(v) : v \in CmVariants}
  /\ content = NewContentManager

SpecClose == InitClose /\ [][NextConn]_vars

\* the first version of the connection manager with an owner that calls
\* connect() repeatedly; every connection succeeds and every disconnect is
\* a transient one
InitReconnect ==
  /\ env = EnvReconnect
  /\ storage = Settings("", "", "", "", "")
  /\ Constructed
  /\ cm = CmInit("lib")
  /\ content = NewContentManager

NextReconnect ==
  \/ CmConnect(TRUE)
  \/ CmDisconnect
  \/ \E p \in 1..(env.connects + env.drops) : CmPortDrop(p, FALSE)
  \/ \E k \in 1..env.drops : CmReconnectTimer(k, TRUE)

SpecReconnect == InitReconnect /\ [][NextReconnect]_vars

\* ------------------------------------------------------------------ claims
FileCreates(r) == {a \in 1..Len(r.reqs) : r.reqs[a].what = "file"}

Answered(r, a) == a <= Len(r.resps)

Started(i) == run[i].pc # "none"

\* C1: an archive request handled while an earlier sync has not settled is
\* answered with a busy error and starts no pipeline run.
C1_BusyRejected ==
  \A j \in SyncIds :
    handler[j].overlapped =>
      /\ ~Started(j)
      /\ handler[j].state = "done" => handler[j].reply = ErrorReply("busy")

\* C2: at most one processZipFile invocation is in flight at any time.
C2_AtMostOneInFlight == Cardinality({i \in SyncIds : InFlight(run[i])}) <= 1

\* C3: messages sent while disconnected are posted, in send order, once a
\* connection succeeds, ahead of every later message, and connecting drops
\* none of them.
C3_QueuedFlushedInOrder ==
  /\ \A a, b \in 1..Len(cm.posted) : a < b => cm.posted[a].msg < cm.posted[b].msg
  /\ CanPost(cm) => cm.messageQueue = <<>>
  /\ \A d \in cm.discarded : d.by # "connect"

\* C4: within one sync a path's file-create request is repeated only after a
\* throttling answer, and at most one file-create per path succeeds.
C4_OneCreatePerEntry ==
  \A i \in SyncIds :
    \A a, b \in FileCreates(run[i]) :
      (a < b /\ run[i].reqs[a] = run[i].reqs[b]) =>
        /\ run[i].resps[a] = 429
        /\ ~(Answered(run[i], b) /\ run[i].resps[a] = 200 /\ run[i].resps[b] = 200)

IsScenario(i) == Started(i) /\ run[i].blob = ArchiveScenario

CreatedPaths(r) == {r.reqs[a].path : a \in FileCreates(r)}

LastEmitted(r) == r.emitted[Len(r.emitted)]

\* C5 as stated: the scenario archive yields exactly one file-create request,
\* for a.txt, and a final success event at 100%.
C5_Original ==
  \A i \in SyncIds :
    (IsScenario(i) /\ run[i].outcome = "resolved") =>
      /\ Cardinality(FileCreates(run[i])) = 1
      /\ CreatedPaths(run[i]) = {<<"a.txt">>}

\* C5 as amended: the scenario archive yields file-create requests for a.txt
\* and .gitignore only, never for b.txt, and a run that completes has
\* requested both and ends with the success event at 100% (followed only by
\* the later idle event).
C5_ScenarioUploads ==
  \A i \in SyncIds :
    IsScenario(i) =>
      /\ CreatedPaths(run[i]) \subseteq {<<"a.txt">>, <<".gitignore">>}
      /\ run[i].outcome = "resolved" =>
           /\ CreatedPaths(run[i]) = {<<"a.txt">>, <<".gitignore">>}
           /\ \E n \in 1..Len(run[i].emitted) :
                /\ run[i].emitted[n].status = "success"
                /\ run[i].emitted[n].progress = 100
                /\ \A m \in (n + 1)..Len(run[i].emitted) :
                     run[i].emitted[m].status = "idle"

C5_Witness ==
  \E i \in SyncIds :
    /\ IsScenario(i)
    /\ run[i].outcome = "resolved"
    /\ LastEmitted(run[i]).status = "success"

\* the index of a path among the entries that survived the filter (0 if none)
EntryIndex(r, path) ==
  IF \E n \in 1..Len(r.processed) : r.processed[n].path = path
    THEN CHOOSE n \in 1..Len(r.processed) : r.processed[n].path = path
    ELSE 0

\* C6: within one sync at most one request is in flight, and the request
\* for entry N+1 is issued only after a request for entry N has settled.
C6_Serialized ==
  \A i \in SyncIds :
    /\ Len(run[i].reqs) <= Len(run[i].resps) + 1
    /\ \A b \in FileCreates(run[i]) :
         LET n == EntryIndex(run[i], run[i].reqs[b].path)
         IN  /\ n >= 1
             /\ n > 1 => \E a \in FileCreates(run[i]) :
                           /\ a < b
                           /\ Answered(run[i], a)
                           /\ run[i].reqs[a].path = run[i].processed[n - 1].path

C6_Witness ==
  \E i \in SyncIds : \E a, b \in FileCreates(run[i]) :
    /\ a < b
    /\ Answered(run[i], b)
    /\ EntryIndex(run[i], run[i].reqs[b].path) = 2
    /\ EntryIndex(run[i], run[i].reqs[a].path) = 1

\* C7: a file-create answered 429 is re-issued for the same file before the
\* sync goes on or ends.
C7_ThrottledFileRetried ==
  \A i \in SyncIds :
    \A a \in FileCreates(run[i]) :
      ( /\ Answered(run[i], a)
        /\ run[i].resps[a] = 429
        /\ run[i].resps[a - 1] # 429
        /\ run[i].pc = "done" ) =>
        /\ a < Len(run[i].reqs)
        /\ run[i].reqs[a + 1] = run[i].reqs[a]

ExhaustedMessage == "Rate limit exceeded. Maximum retries reached"

FailedCreates(r) ==
  {a \in FileCreates(r) : Answered(r, a) /\ r.resps[a] \notin {200, 429}}

\* C9: after a file-create failed with an error that is no throttling, the
\* sync has ended in error and has issued no request since, neither for a
\* later file nor to undo a committed one.
C9_FailureAborts ==
  \A i \in SyncIds :
    \A a \in FailedCreates(run[i]) :
      /\ Len(run[i].reqs) = a
      /\ run[i].pc = "done"
      /\ run[i].outcome = "rejected"
      /\ LastEmitted(run[i]).status = "error"
      /\ handler[i].state = "done"
      /\ handler[i].reply.status = "error"

C9_Witness ==
  \E i \in SyncIds :
    /\ FailedCreates(run[i]) # {}
    /\ Len(run[i].results) >= 1
    /\ \E a \in FileCreates(run[i]) : Answered(run[i], a) /\ run[i].resps[a] = 200

\* C10: once the timeout has been reported, the sync issues no further
\* request and emits no further status.
C10_TimeoutAborts ==
  [][ \A i \in SyncIds :
        handler[i].timedOut =>
          /\ run'[i].reqs = run[i].reqs
          /\ run'[i].emitted = run[i].emitted ]_vars

\* C11: a run on an archive larger than 50 MiB has emitted the error status
\* and nothing else, has failed, has extracted nothing and has issued no
\* request; a run on an archive of exactly 50 MiB is not failed by the guard.
C11_TooLargeRejected ==
  \A i \in SyncIds :
    Started(i) =>
      /\ run[i].blob.size > MAX_FILE_SIZE =>
           /\ run[i].pc = "done"
           /\ run[i].outcome = "rejected"
           /\ run[i].error.msg = "File too large"
           /\ run[i].emitted = << Status("error", 0, "File too large") >>
           /\ run[i].files = <<>>
           /\ run[i].reqs = <<>>
      /\ run[i].blob.size = MAX_FILE_SIZE =>
           /\ run[i].error.msg # "File too large"
           /\ run[i].emitted[1] = Status("uploading", 0, "Processing ZIP file...")

C11_Witness ==
  \E i \in SyncIds :
    /\ run[i].blob = ArchiveTooLarge
    /\ run[i].outcome = "rejected"
    /\ handler[i].state = "done"

\* C12: the terminal response of a sync (success, error or timeout) reaches
\* every endpoint that is in the port map when it is sent: each of them is
\* posted the response, or was posted the run's own terminal status of the
\* same kind by the broadcast in the same step.  (The statuses the run emits
\* go through broadcastStatus, which posts to every port of the map.)
C12_TerminalToAll ==
  \A i \in SyncIds :
    (Started(i) /\ handler[i].state = "done") =>
      \A e \in handler[i].present :
        \/ e \in handler[i].heard
        \/ /\ ~handler[i].timedOut
           /\ \E n \in 1..Len(run[i].emitted) :
                /\ run[i].emitted[n].status = handler[i].reply.status
                /\ e \in run[i].heard[n]

\* the connect() calls that begin or resume in a step and end in it without a
\* port: neither connected nor asleep in a backoff afterwards
ConnectsFailedInStep ==
  (cm'.connects - cm.connects)
  + (IF Len(cm'.timers) < Len(cm.timers) THEN 1 ELSE 0)
  + Len(cm.sleepers) - Len(cm'.sleepers)
  - (cm'.nextPort - cm.nextPort)

\* C13: a connect() call makes at most ConnectMaxRetries attempts (the
\* first version makes one), sleeps ConnectRetryDelay * 2^(k-1) ms after its
\* k-th failed attempt, and when it ends without a port, the last attempt
\* included, the listeners are told connected = false and it sleeps no more.
C13_ConnectRetriesBounded ==
  /\ [](\A k \in 1..Len(cm.sleepers) :
          /\ cm.variant = "retrying"
          /\ cm.sleepers[k].retries \in 1..(ConnectMaxRetries - 1)
          /\ cm.sleepers[k].delay = ConnectRetryDelay * Pow2(cm.sleepers[k].retries - 1))
  /\ [][ /\ ConnectsFailedInStep > 0 =>
              /\ Len(cm'.notified) > Len(cm.notified)
              /\ cm'.notified[Len(cm'.notified)] = FALSE
         /\ cm'.exhausted > cm.exhausted =>
              /\ ConnectsFailedInStep = 1
              /\ Len(cm'.sleepers) = Len(cm.sleepers) - 1 ]_vars

C13_Witness ==
  /\ cm.variant = "retrying"
  /\ cm.exhausted >= 1
  /\ cm.notified[Len(cm.notified)] = FALSE
  /\ cm.sleepers = <<>>

\* C14: a transient disconnect with the host alive schedules one reconnection
\* after RETRY_DELAY * 2^(retryCount-1) ms unless the budget is used up, and
\* at most MAX_RETRIES reconnections are scheduled without a successful
\* connection in between.
C14_ReconnectBudget ==
  /\ [](cm.scheduled <= MAX_RETRIES(cm.variant))
  /\ [][ cm'.drops > cm.drops =>
           IF cm'.runtimeAlive /\ cm.scheduled < MAX_RETRIES(cm.variant)
             THEN /\ cm'.scheduled = cm.scheduled + 1
                  /\ cm'.timers =
                       Append(cm.timers, RETRY_DELAY(cm.variant) * Pow2(cm'.retryCount - 1))
             ELSE cm'.timers = cm.timers ]_vars

\* C15: a disconnect that says the extension context is invalidated, or that
\* finds the runtime id gone, schedules no reconnection and notifies the
\* connection listeners once, with a notification that differs from the one a
\* transient drop sends.
C15_GoneToldDistinctly ==
  /\ [](cm.toldGone \cap cm.toldTransient = {})
  /\ [][ cm'.drops > cm.drops /\ ~cm'.runtimeAlive =>
           /\ cm'.timers = cm.timers
           /\ Len(cm'.notified) = Len(cm.notified) + 1 ]_vars

\* C15 without the distinctness: no reconnection, one notification
C15_GoneNotRetried ==
  [][ cm'.drops > cm.drops /\ ~cm'.runtimeAlive =>
        /\ cm'.timers = cm.timers
        /\ Len(cm'.notified) = Len(cm.notified) + 1 ]_vars

\* the storage has changed and every storage listener call has run to its end
ChangesHandled == initialized /\ reinit.changes > 0 /\ reinit.pending = 0

\* C16: once a change of the stored settings has been handled and the settings
\* hold a token and an owner, the service and the ZipHandler are the ones built
\* from the stored token, whatever the settings were at the start.
C16_ChangeRebuilds ==
  ChangesHandled /\ ValidSettings(storage) =>
    /\ gitlabService = storage.gitlabToken
    /\ zipHandler = storage.gitlabToken

\* C16 for a background service that found a token and an owner at its start
C16_RebuildsAfterValidStart ==
  storageListener /\ ChangesHandled /\ ValidSettings(storage) =>
    /\ gitlabService = storage.gitlabToken
    /\ zipHandler = storage.gitlabToken

\* a change of the stored settings, seen by the storage listener, has left
\* the token or the owner missing
SettingsLeftIncomplete == storageListener /\ ChangesHandled /\ ~ValidSettings(storage)

NotReadyReply == ErrorReply("GitLab service not initialized")

\* C17 as stated: once a settings change has left the token or the owner
\* missing, the coordinator holds neither a GitLab service nor a ZipHandler.
C17_Original ==
  SettingsLeftIncomplete => gitlabService = None /\ zipHandler = None

\* C17, amended: once a settings change has left the token or the owner
\* missing, the GitLab service is null while the ZipHandler built earlier is
\* kept; an archive request that arrives while the service is null is answered
\* at once with the not-ready error, and no processZipFile run starts for it.
C17_ServiceCleared ==
  /\ [](SettingsLeftIncomplete => gitlabService = None /\ zipHandler # None)
  /\ [](\A i \in SyncIds :
          handler[i].reply = NotReadyReply =>
            /\ handler[i].state = "done"
            /\ run[i].pc = "none" /\ run[i].reqs = <<>> /\ run[i].emitted = <<>>)
  /\ [][ \A i \in SyncIds :
           handler[i].state = "unused" /\ handler'[i].state # "unused"
             /\ gitlabService = None
           => handler'[i].reply = NotReadyReply ]_vars

C17_Witness ==
  /\ SettingsLeftIncomplete
  /\ zipHandler # None
  /\ \E i \in SyncIds : handler[i].reply = NotReadyReply

\* C18: the port map holds exactly the accepted endpoints that are connected,
\* and when an endpoint disconnects, the entry of another endpoint that is
\* still connected stays.
C18_PortMapIsConnected ==
  /\ [](Observers = {e \in live : Accepted(e)})
  /\ [][ \A e \in live \ live' : \A t \in TabIds :
           ports[t] \in live' => ports'[t] = ports[t] ]_vars

\* the second half of C18 alone
C18_OthersEntryKept ==
  [][ \A e \in live \ live' : \A t \in TabIds :
        ports[t] \in live' => ports'[t] = ports[t] ]_vars

\* the 'error' statuses of sync i that endpoint e was posted: the run's own,
\* broadcast to the port map, and the response of handleZipData
ErrorsHeard(i, e) ==
  Cardinality({n \in 1..Len(run[i].emitted) :
                 run[i].emitted[n].status = "error" /\ e \in run[i].heard[n]})
  + (IF handler[i].reply.status = "error" /\ e \in handler[i].heard THEN 1 ELSE 0)

\* sync i has ended in failure: its response was an error and its run is over
EndedInFailure(i) ==
  /\ handler[i].state = "done"
  /\ handler[i].reply.status = "error"
  /\ ~InFlight(run[i])

\* C19: when a sync has ended in failure, every endpoint of the port map has
\* been posted exactly one status 'error' for it.
C19_OneErrorEach ==
  \A i \in SyncIds :
    EndedInFailure(i) => \A e \in handler[i].present : ErrorsHeard(i, e) = 1

\* C19, lower half only: no endpoint of the port map misses the failure
C19_ErrorNotMissed ==
  \A i \in SyncIds :
    EndedInFailure(i) => \A e \in handler[i].present : ErrorsHeard(i, e) >= 1

\* the place of a status in the order of the phases; 0 for no phase
PhaseRank(status) ==
  CASE status = "queued"       -> 1
    [] status = "extracting"   -> 2
    [] status = "validating"   -> 3
    [] status = "branch-check" -> 4
    [] status = "uploading"    -> 5
    [] status \in {"success", "error"} -> 6
    [] status = "idle"         -> 7
    [] OTHER                   -> 0

\* the statuses of run i never step back in the order of the phases
PhasesInOrder(i) ==
  \A n \in 1..Len(run[i].emitted) :
    /\ PhaseRank(run[i].emitted[n].status) > 0
    /\ n > 1 => PhaseRank(run[i].emitted[n - 1].status)
                  <= PhaseRank(run[i].emitted[n].status)

\* C20: the statuses a processZipFile run emits follow the order of the
\* phases, a run that is over has emitted a terminal status (success or
\* error), and a terminal status is followed by nothing but idle.
C20_OneTerminalPhase ==
  \A i \in SyncIds :
    /\ PhasesInOrder(i)
    /\ run[i].pc = "done" =>
         \E n \in 1..Len(run[i].emitted) : PhaseRank(run[i].emitted[n].status) = 6
    /\ \A n \in 1..Len(run[i].emitted) :
         PhaseRank(run[i].emitted[n].status) = 6 =>
           \A m \in (n + 1)..Len(run[i].emitted) : run[i].emitted[m].status = "idle"

\* C20 with a terminal status allowed to repeat
C20_TerminalReached ==
  \A i \in SyncIds :
    /\ PhasesInOrder(i)
    /\ run[i].pc = "done" =>
         \E n \in 1..Len(run[i].emitted) : PhaseRank(run[i].emitted[n].status) = 6

\* C21: within one run, every emitted progress is an integer from 0 to 100,
\* and of two statuses of the same phase the later one has no smaller progress.
C21_PercentMonotone ==
  \A i \in SyncIds :
    \A n \in 1..Len(run[i].emitted) :
      /\ run[i].emitted[n].progress \in 0..100
      /\ \A m \in 1..(n - 1) :
           run[i].emitted[m].status = run[i].emitted[n].status =>
             run[i].emitted[m].progress <= run[i].emitted[n].progress

\* C21, the range alone
C21_PercentInRange ==
  \A i \in SyncIds :
    \A n \in 1..Len(run[i].emitted) : run[i].emitted[n].progress \in 0..100

\* the paths whose file-create request was answered with success
UploadedPaths(r) ==
  {r.reqs[a].path : a \in {b \in FileCreates(r) : Answered(r, b) /\ r.resps[b] = 200}}

FailedUpload(r) == \E a \in FileCreates(r) : Answered(r, a) /\ r.resps[a] # 200

\* the run is over, entries survived the filter, and each was uploaded with
\* no file-create request refused
AllUploaded(r) ==
  /\ r.pc = "done"
  /\ r.processed # <<>>
  /\ UploadedPaths(r) = MapPaths(r.processed)
  /\ ~FailedUpload(r)

Succeeded(r) == \E n \in 1..Len(r.emitted) : r.emitted[n].status = "success"

\* C22: a sync whose uploads all succeeded has emitted the success status at
\* 100% with the number of uploaded files, followed by nothing but idle, and
\* the idle status is pending on its timer or has been emitted; a run that
\* emitted success had no upload refused and uploaded every surviving entry.
C22_SuccessAfterUploads ==
  \A i \in SyncIds :
    /\ AllUploaded(run[i]) =>
         /\ \E n \in 1..Len(run[i].emitted) :
              /\ run[i].emitted[n] =
                   StatusN("success", 100, "", "Successfully uploaded files to GitLab",
                           Cardinality(UploadedPaths(run[i])))
              /\ \A m \in (n + 1)..Len(run[i].emitted) :
                   run[i].emitted[m] = Status("idle", 0, "")
         /\ run[i].idleTimer \/ LastEmitted(run[i]).status = "idle"
    /\ Succeeded(run[i]) =>
         /\ ~FailedUpload(run[i])
         /\ UploadedPaths(run[i]) = MapPaths(run[i].processed)
    /\ run[i].idleTimer => LastEmitted(run[i]).status = "success"

C22_Witness ==
  \E i \in SyncIds :
    /\ AllUploaded(run[i])
    /\ Len(run[i].processed) = 2
    /\ Len(run[i].files) > 2
    /\ LastEmitted(run[i]).status = "idle"

\* validateRepository has returned before request a of the run: the project
\* lookup and then the branch listing were answered 200
ValidatedBefore(r, a) ==
  \E b, c \in 1..(a - 1) :
    /\ b < c
    /\ r.reqs[b] = Req("GET", "project", <<>>) /\ r.resps[b] = 200
    /\ r.reqs[c] = Req("GET", "branches", <<>>) /\ r.resps[c] = 200

\* C23: a run issues a write request (a branch creation or a file create)
\* only after its project lookup and then its branch listing have succeeded.
C23_WritesAfterValidation ==
  \A i \in SyncIds :
    \A a \in 1..Len(run[i].reqs) :
      run[i].reqs[a].method = "POST" => ValidatedBefore(run[i], a)

C23_Witness ==
  \E i \in SyncIds :
    /\ \E a \in 1..Len(run[i].reqs) : run[i].reqs[a].what = "create_branch"
    /\ \E a \in FileCreates(run[i]) : ValidatedBefore(run[i], a)

\* the answer that made validateRepository fail in the run (0 if it did not)
ValidationRefusal(r) ==
  IF \E a \in 1..Len(r.resps) :
       r.reqs[a].what \in {"project", "branches"} /\ r.resps[a] # 200
    THEN r.resps[CHOOSE a \in 1..Len(r.resps) :
                   r.reqs[a].what \in {"project", "branches"} /\ r.resps[a] # 200]
    ELSE 0

RepositoryNotFoundMessage ==
  "Repository not found. Please verify your GitLab repository URL and permissions."

InsufficientPermissionsMessage ==
  "Insufficient permissions. Please check your GitLab token has the required access rights."

\* C24: when the validation of the repository fails, the response to the
\* requester names the cause: repository not found for a 404, insufficient
\* permissions for a 403.
C24_CauseReported ==
  \A i \in SyncIds :
    (handler[i].state = "done" /\ ~handler[i].timedOut) =>
      /\ ValidationRefusal(run[i]) = 404 =>
           handler[i].reply = ErrorReply(RepositoryNotFoundMessage)
      /\ ValidationRefusal(run[i]) = 403 =>
           handler[i].reply = ErrorReply(InsufficientPermissionsMessage)

\* C24 for a 404 alone
C24_NotFoundReported ==
  \A i \in SyncIds :
    (handler[i].state = "done" /\ ~handler[i].timedOut
       /\ ValidationRefusal(run[i]) = 404) =>
      handler[i].reply = ErrorReply(RepositoryNotFoundMessage)

\* the requests of ensureBranchExists in a run: the lookup of the target
\* branch is the first branch lookup, the creations are the POSTs of a branch
TargetLookup(r) ==
  IF \E a \in 1..Len(r.reqs) : r.reqs[a].what = "branch"
    THEN CHOOSE a \in 1..Len(r.reqs) :
           r.reqs[a].what = "branch" /\ \A b \in 1..(a - 1) : r.reqs[b].what # "branch"
    ELSE 0

LookupAnswer(r) ==
  IF TargetLookup(r) # 0 /\ Answered(r, TargetLookup(r))
    THEN r.resps[TargetLookup(r)] ELSE 0

BranchCreates(r) == {a \in 1..Len(r.reqs) : r.reqs[a].what = "create_branch"}

\* C25 without the origin of the new branch: a branch is created only after
\* the lookup of the target branch was answered 404, and then whenever the
\* head commit could be read; a 403 to the creation is reported as
\* insufficient permissions; any other answer to the lookup ends the run
\* with no branch created.
C25_CreateOnlyIfAbsent ==
  \A i \in SyncIds :
    /\ BranchCreates(run[i]) # {} <=>
         /\ LookupAnswer(run[i]) = 404
         /\ \E a \in 1..Len(run[i].resps) :
              run[i].reqs[a].what = "main" /\ run[i].resps[a] = 200
    /\ \A a \in BranchCreates(run[i]) :
         (Answered(run[i], a) /\ run[i].resps[a] = 403) =>
           /\ run[i].outcome = "rejected"
           /\ run[i].error.msg = "Insufficient permissions to create branch"
    /\ LookupAnswer(run[i]) \notin {0, 200, 404} =>
         /\ BranchCreates(run[i]) = {}
         /\ run[i].outcome = "rejected"
         /\ run[i].error.msg = "Failed to check branch existence: GitLab API Error"

\* C25: as above, and the branch is created from the head commit of the
\* repository's default branch.
C25_BranchFromDefault ==
  /\ C25_CreateOnlyIfAbsent
  /\ \A i \in SyncIds : \A a \in BranchCreates(run[i]) :
       run[i].reqs[a].path = << env.defaultBranch >>

\* the run has applied processFilesWithGitignore to its extracted map
HasFiltered(r) == r.pc = "upload_branch"

\* C26: filtering the result of the filter gives the same paths and contents
\* as filtering once.
C26_FilterIdempotent ==
  \A i \in SyncIds :
    HasFiltered(run[i]) =>
      /\ run[i].processed = processFilesWithGitignore(run[i].files)
      /\ processFilesWithGitignore(run[i].processed) = run[i].processed

GitignorePaths == { <<".gitignore">>, <<"project", ".gitignore">> }

HasGitignore(files) == \E path \in GitignorePaths : MapHas(files, path)

\* the outputs the filter has when it applies the rules of a .gitignore
\* that is among the entries
FilteredByOwnRules(files) ==
  { FilterFrom(files, RulesOf(MapGet(files, path)), 1, <<>>) :
      path \in {q \in GitignorePaths : MapHas(files, q)} }

\* C27, second half: without a .gitignore entry the default patterns are
\* applied, and they drop node_modules/x.js.
C27_DefaultsWithoutGitignore ==
  \A i \in SyncIds :
    (HasFiltered(run[i]) /\ ~HasGitignore(run[i].files)) =>
      /\ run[i].processed =
           FilterFrom(run[i].files, RulesOf(DefaultIgnoreLines), 1, <<>>)
      /\ ~MapHas(run[i].processed, <<"node_modules", "x.js">>)

\* C27: with a .gitignore entry at the root or at project/.gitignore the
\* filter applies that entry's rules, and only without one the default
\* patterns.
C27_OwnRulesWhenPresent ==
  /\ C27_DefaultsWithoutGitignore
  /\ \A i \in SyncIds :
       (HasFiltered(run[i]) /\ HasGitignore(run[i].files)) =>
         run[i].processed \in FilteredByOwnRules(run[i].files)

\* the entries of a map as a set of pairs, paths as the filter writes them
PairsOf(m, ks) ==
  { [path |-> NormalizedPath(m[k].path), content |-> m[k].content] : k \in ks }

Matched(files, k) == Ignores(ActiveRules(files), NormalizedPath(files[k].path))

\* the entries that are no directory marker, not empty and not matched
Survivors(files) ==
  { k \in 1..Len(files) :
      /\ ~EndsWithSlash(files[k].path)
      /\ files[k].content # <<"">>
      /\ ~Matched(files, k) }

\* the same with blank content (spaces and line ends only) counted as empty
SurvivorsNotBlank(files) ==
  { k \in Survivors(files) : ~TrimIsEmpty(files[k].content) }

\* C28: the output of the filter holds exactly the entries that are no
\* directory marker, have content and are not matched by the active patterns.
C28_ExactlySurvivors ==
  \A i \in SyncIds :
    HasFiltered(run[i]) =>
      { [path |-> run[i].processed[n].path, content |-> run[i].processed[n].content] :
          n \in 1..Len(run[i].processed) }
        = PairsOf(run[i].files, Survivors(run[i].files))

\* C28 as far as it holds: the paths of the output are those of the entries
\* that are no directory marker, not blank and not matched.
C28_PathsOfSurvivors ==
  \A i \in SyncIds :
    HasFiltered(run[i]) =>
      MapPaths(run[i].processed)
        = { q.path : q \in PairsOf(run[i].files, SurvivorsNotBlank(run[i].files)) }

\* the run is past its call of processZipBlob
PastExtraction(r) == r.pc \notin {"none", "extract"}

Extractable(blob) == blob.size > 0 /\ blob.wellFormed /\ blob.entries # <<>>

EntryPaths(blob) == {blob.entries[k].path : k \in 1..Len(blob.entries)}

\* C29: for a well-formed archive with entries, the keys of the extracted
\* map are the archive's entry paths that are no directory markers, and
\* extracting the same bytes again gives an equal map.
C29_KeysAreFilePaths ==
  \A i \in SyncIds :
    (PastExtraction(run[i]) /\ Extractable(run[i].blob)) =>
      /\ MapPaths(run[i].files) = {q \in EntryPaths(run[i].blob) : ~EndsWithSlash(q)}
      /\ processZipBlob(run[i].blob).files = run[i].files

\* C29 as far as it holds: the keys are all the archive's entry paths, those
\* of directory markers included, each with the decoded content of its
\* entry, and extracting the same bytes again gives an equal map.
C29_KeysAreEntryPaths ==
  \A i \in SyncIds :
    (PastExtraction(run[i]) /\ Extractable(run[i].blob)) =>
      /\ MapPaths(run[i].files) = EntryPaths(run[i].blob)
      /\ \A k \in 1..Len(run[i].blob.entries) :
           MapGet(run[i].files, run[i].blob.entries[k].path)
             = Decode(run[i].blob.entries[k])
      /\ processZipBlob(run[i].blob).ok
      /\ processZipBlob(run[i].blob).files = run[i].files

\* the run has failed in processZipBlob with this message, and has neither
\* a map nor a request
FailedExtracting(r, msg) ==
  /\ r.outcome = "rejected"
  /\ r.error.msg = msg
  /\ r.files = <<>> /\ r.processed = <<>> /\ r.reqs = <<>>

\* C30: processZipBlob fails with the empty-archive error on a blob of size
\* zero, with the corrupt-archive error when the bytes cannot be inflated and
\* with the no-entries error when they hold no entry; the three errors differ
\* and in each case there is no map.
C30_ExtractionErrors ==
  /\ Cardinality({ processZipBlob(b).msg :
                     b \in {ArchiveEmpty, ArchiveCorrupt, ArchiveNoEntries} }) = 3
  /\ \A i \in SyncIds :
       PastExtraction(run[i]) =>
         /\ run[i].blob.size = 0 => FailedExtracting(run[i], "Empty ZIP file provided")
         /\ (run[i].blob.size > 0 /\ ~run[i].blob.wellFormed) =>
              FailedExtracting(run[i], "Failed to extract ZIP contents")
         /\ (run[i].blob.size > 0 /\ run[i].blob.wellFormed
               /\ run[i].blob.entries = <<>>) =>
              FailedExtracting(run[i], "ZIP file contains no files")

C30_Witness ==
  \E i \in SyncIds :
    /\ run[i].blob = ArchiveNoEntries
    /\ FailedExtracting(run[i], "ZIP file contains no files")

\* the paths of the archive's entries whose bytes are no UTF-8 text
Undecodable(blob) ==
  {blob.entries[k].path : k \in {j \in 1..Len(blob.entries) : ~blob.entries[j].utf8}}

\* C31: when the bytes of an entry are no UTF-8 text, processZipBlob fails
\* the whole call with the decode error and returns no map, so that the run
\* has nothing derived from that entry.
C31_UndecodableFails ==
  \A i \in SyncIds :
    (PastExtraction(run[i]) /\ Extractable(run[i].blob)
       /\ Undecodable(run[i].blob) # {}) =>
      /\ ~processZipBlob(run[i].blob).ok
      /\ FailedExtracting(run[i], "Failed to decode file")

\* C31 as the code has it: the call succeeds and the map holds every
\* undecodable entry under its path, with replacement characters as content.
C31_UndecodableReplaced ==
  \A i \in SyncIds :
    (PastExtraction(run[i]) /\ Extractable(run[i].blob)) =>
      \A q \in Undecodable(run[i].blob) :
        /\ q \in MapPaths(run[i].files)
        /\ MapGet(run[i].files, q) = <<"?">>


\* createBlobs has returned: uploadToGitLab has emitted the status that
\* follows its call
BatchFinished(r) ==
  \E n \in 1..Len(r.emitted) : r.emitted[n] = Status("uploading", 70, "Creating tree...")

\* the paths createBlobs has pushed to its results are those of the first
\* entries of the filtered map, in order, one each
OneResultEach(r) ==
  /\ Len(r.results) <= Len(r.processed)
  /\ \A k \in 1..Len(r.results) : r.results[k] = r.processed[k].path

\* the counter counts the requests of createBlobs that succeeded
CountsSuccesses(r) ==
  /\ r.completedFiles = Len(r.results)
  /\ r.completedFiles >= 0
  /\ OneResultEach(r)
  /\ BatchFinished(r) => r.completedFiles = Len(r.processed)
  /\ r.pc \in {"before_request", "blob_post"} => r.completedFiles = r.k - 1

Triple(r) == << r.owner, r.repo, r.branch >>

\* the run has read its settings and gone on
HasTarget(r) == r.reqs # <<>>

\* C33: every request of a run that names a project names the owner and the
\* repository the run read from the settings, every request that checks,
\* creates or writes to the target branch names the branch it read, the
\* triple is the one the settings held when the run read them, and it does
\* not change afterwards whatever is written to the settings.
C33_OneTarget ==
  /\ [](\A i \in SyncIds : \A a \in 1..Len(run[i].reqs) :
          /\ Len(run[i].targets) = Len(run[i].reqs)
          /\ run[i].reqs[a].what # "rate_limit" =>
                /\ run[i].targets[a].owner = run[i].owner
                /\ run[i].targets[a].repo = run[i].repo
          /\ run[i].reqs[a].what \in {"branch", "create_branch", "file"} =>
                run[i].targets[a].branch = run[i].branch)
  /\ [][\A i \in SyncIds :
          /\ (run[i].pc = "settings" /\ HasTarget(run'[i])) =>
                Triple(run'[i]) = << storage.repoOwner, storage.repoName,
                                     TargetBranch(storage) >>
          /\ HasTarget(run[i]) =>
                \/ Triple(run'[i]) = Triple(run[i])
                \/ run'[i].pc = "none"]_vars

\* a file is created for the triple the run read although the settings
\* name another owner, repository and branch by now
C33_Witness ==
  \E i \in SyncIds : \E a \in FileCreates(run[i]) :
    /\ run[i].targets[a] = [owner |-> "owner", repo |-> "repo", branch |-> "main"]
    /\ storage.repoOwner # "owner"
    /\ storage.repoName = "repo2"
    /\ storage.branch = "dev"


\* the manager holds a port that is connected
LivePort(c) == c.port # 0 /\ c.port \in c.open

\* with a valid extension context, a port was lost or a reconnection attempt
\* failed, and there is no live port, no pending reconnection and nothing
\* was shown since: only another event of the page can change that
Stranded(c) == c.runtimeAlive /\ c.awaiting /\ ~LivePort(c) /\ c.timers = 0

\* C34: after a transient port disconnect or a failed reconnection attempt
\* the manager is never left without a live port, without a scheduled
\* reconnection and without having notified the user.
C34_NeverStranded == ~Stranded(content)

\* the notifications shown in this step
NewlyShown == SubSeq(content'.shown, Len(content.shown) + 1, Len(content'.shown))

OnlyReload(seq) == \A k \in 1..Len(seq) : seq[k] = "reload"

\* this step handles a port disconnect or a connection error that says the
\* extension context was invalidated
InvalidationSignalled == content.runtimeAlive /\ ~content'.runtimeAlive

\* the port is released and the reconnection state is reset
Released(c) == c.port = 0 /\ ~c.isReconnecting /\ c.reconnectAttempts = 0

C36_OneReconnection ==
  /\ content.timers <= 1
  /\ content.reconnectAttempts <= MAX_RECONNECT_ATTEMPTS

\* C36 as far as it holds: reconnectAttempts is 1 while the flag
\* isReconnecting is set and 0 otherwise.
C36_AttemptsFollowFlag ==
  content.reconnectAttempts = (IF content.isReconnecting THEN 1 ELSE 0)


\* C37: after the owner's disconnect() and until the owner calls connect()
\* again, the manager has no port and tells its listeners of no connection.
C37_StaysDisconnected ==
  /\ [](cm.closed => cm.port = 0)
  /\ [][(cm.closed /\ cm'.closed /\ Len(cm'.notified) > Len(cm.notified)) =>
          ~cm'.notified[Len(cm'.notified)]]_vars

\* C37 as far as it holds: disconnect() itself leaves no port, an empty
\* queue and a zero retry count, and tells the listeners so.
C37_DisconnectCloses ==
  [][(cm'.disconnects = cm.disconnects + 1) =>
       /\ cm'.port = 0 /\ cm'.messageQueue = <<>> /\ cm'.retryCount = 0
       /\ cm'.notified = Append(cm.notified, FALSE)
       /\ cm'.timers = cm.timers]_vars


\* the idle timer of run i fires in this step
IdleDelivered(i) == run[i].idleTimer /\ ~run'[i].idleTimer

\* the run has emitted its first progress event and not yet its terminal one
InProgress(r) == r.emitted # <<>> /\ InFlight(r)

\* C38: the idle status scheduled after a successful sync is not emitted
\* while a later sync is between its first progress event and its terminal
\* event.  (Requests take the free slots in order: a later sync has the
\* higher index.)
C38_IdleNotDuringSync ==
  [][\A i \in SyncIds :
       IdleDelivered(i) =>
         \A j \in SyncIds : j > i => ~InProgress(run[j])]_vars

\* C38 as far as it holds: the idle status is emitted once per successful
\* sync, after its success status.
C38_IdleAfterSuccess ==
  [][\A i \in SyncIds :
       IdleDelivered(i) =>
         /\ LastEmitted(run[i]).status = "success"
         /\ run'[i].emitted = Append(run[i].emitted, Status("idle", 0, ""))]_vars


\* handleZipData i calls processZipFile in this step
SyncStarted(i) == handler[i].state = "project_id" /\ run'[i].emitted # <<>>

\* handleZipData i gets the result of its sync in this step
SyncSucceeded(i) ==
  handler[i].state = "racing" /\ handler'[i].state = "done" /\ run'[i].outcome = "resolved"

SyncFailed(i) ==
  handler[i].state = "racing" /\ handler'[i].state = "done" /\ run'[i].outcome # "resolved"

\* C39: a sync uses the commit message that is pending when it starts; when
\* it succeeds the message it used is replaced by the default, while a
\* message set during the sync stays pending; when it fails the pending
\* message is left as it is.
C39_MessageForNextSync ==
  [][\A i \in SyncIds :
       /\ SyncStarted(i) => run'[i].commitMessage = pendingCommitMessage
       /\ SyncSucceeded(i) =>
            pendingCommitMessage' =
              IF pendingCommitMessage = run[i].commitMessage
                THEN DefaultCommitMessage ELSE pendingCommitMessage
       /\ SyncFailed(i) => pendingCommitMessage' = pendingCommitMessage]_vars

\* C39 as far as it holds: a sync uses the message pending when it starts, a
\* sync that succeeds leaves the default pending whatever was pending before,
\* and one that fails leaves the pending message as it is.
C39_ResetOnSuccess ==
  [][\A i \in SyncIds :
       /\ SyncStarted(i) => run'[i].commitMessage = pendingCommitMessage
       /\ SyncSucceeded(i) => pendingCommitMessage' = DefaultCommitMessage
       /\ SyncFailed(i) => pendingCommitMessage' = pendingCommitMessage]_vars


====
